---------------------------- MODULE Spec2Model ----------------------------
(***************************************************************************)
(* A model of the instruction compilation and execution engine of the      *)
(* gofa-tcp-control speech-to-robot controller: the sandwich sub-executor  *)
(* and plan executor, the file-based acknowledgment handshake, the         *)
(* debounced speech handlers, the phrase-learning paths, the three-pass    *)
(* sequence interpreter and the recursive instruction compiler.            *)
(*                                                                         *)
(* Every subsystem has its own specification (SpecStack, SpecPlan, ...)    *)
(* over the one set of variables; the variables of the other subsystems    *)
(* stay at their initial values.                                           *)
(***************************************************************************)
EXTENDS Integers, Sequences, FiniteSets, TLC

VARIABLES
    locations,        \* scene_context["locations"]: the names that have a position
    constraints,      \* scene_context["constraints"]
    sandwich,         \* SandwichExecutor: assembly_stack, assembly_stack_height, speed
    scene_state,      \* scene_context["state"]
    scene_file,       \* "state" of the document scene_context.json
    lastCall,         \* history: the last sub-executor call and what it returned
    stack_shared,     \* SandwichExecutor.assembly_stack is the list object of the scene state
    plan,             \* ExecutionPlan.steps handed to execute_plan
    plan_pc,          \* execute_plan: index of the next step of the for loop (0: not called)
    plan_result,      \* execute_plan: "none" while running, then "true" or "false"
    exec_log,         \* history: the steps execute_step was called with, and its returns
    plan_start,       \* history: the world when execute_plan was called
    now,              \* time.time(), in ticks
    cmd_file,         \* tcp_commands.json: its content and modification time
    ack_file,         \* tcp_ack.json: its content and modification time
    unity,            \* the actuator (FakeUnity): last_modified, and the command it is moving to
    sender,           \* _send_and_wait: where it is, write_time, deadline
    current_position, \* InstructionExecutor.current_position
    gripper_position, \* InstructionExecutor.gripper_position, in centimetres
    next_id,          \* history: the number of the next write of tcp_commands.json
    ack_log,          \* history: what every finished _send_and_wait returned
    utt,              \* history: the number of the utterance being heard
    heard,            \* the final text of the utterance being heard
    phase,            \* "speaking" between the first partial and the final text
    partial_len,      \* the number of words of the last partial
    last_partial_text,      \* MicToAzureStream.last_partial_text
    executed_in_partial,    \* MicToAzureStream.executed_in_partial
    pending_partial_timer,  \* MicToAzureStream.pending_partial_timer
    pending_and_timer,      \* MicToAzureStream.pending_and_timer
    timer_threads,    \* timer callbacks that have fired and wait for partial_lock
    command_queue,    \* command_queue, every entry with the utterance it came from
    speech_position,  \* current_position of speech_control_llm
    detailed_file,    \* tcp_commands_detailed.json
    exited,           \* os._exit(0) was called
    phrases,          \* PhraseBank.data["phrases"]
    sequence_phrases, \* the phrase bank's cache of learned sequences
    pending_confirmation,   \* CommandProcessor.pending_confirmation
    process_result,   \* history: what the last call of CommandProcessor.process did
    silent_learning,  \* config.SILENT_LEARNING
    interp_pc,        \* interpret: "idle", or the pass it is about to run
    voice_command,    \* interpret: its argument
    interp_result,    \* interpret: result
    interp_outcome,   \* interpret: "none", "returned", "returned None" or "raised"
    passes,           \* history: the model calls made and how Pass 2 and Pass 3 ended
    instruction_set,  \* InstructionCompiler.instruction_set: composites, learned_composites
    instruction_file, \* the document instruction_set.json
    learn_call,       \* the arguments of learn_composite, when it was the last call
    learn_result,     \* what it returned
    compile_call,     \* the compilation, when it was the last call: arguments and plan
    phrase_bank,      \* PhraseBank.data["phrases"], with its parameters
    bank_call,        \* history: the last call of the phrase bank and what it returned
    call_stack,       \* the calls of compile_instruction that have not returned
    intent_executor,  \* IntentExecutor: position, history, gripper, objects, queue, halt
    execute_log,      \* history: the last call of IntentExecutor.execute and what it did
    compound_call,    \* _handle_compound_command: the steps its for loop has not executed
    sentence_call,    \* history: the last call of process_multi_command_sentence
    lock_holder,      \* the thread that holds each threading.Lock, None when it is free
    thread_pc,        \* where each thread is in its handler
    awaiting_measurement,   \* awaiting_measurement.is_set()
    lock_orders,      \* history: the pairs (lock held, lock acquired) that have happened
    handlers_run      \* history: the number of handler calls so far

execVars == <<locations, constraints, sandwich, scene_state, scene_file, lastCall,
             stack_shared>>

planVars == <<plan, plan_pc, plan_result, exec_log, plan_start>>

ackVars == <<now, cmd_file, ack_file, unity, sender, current_position, gripper_position,
            next_id, ack_log>>

executorVars == <<intent_executor, execute_log, compound_call>>

sentenceVars == <<sentence_call>>

lockVars == <<lock_holder, thread_pc, awaiting_measurement, lock_orders, handlers_run>>

speechVars == <<utt, heard, phase, partial_len, last_partial_text, executed_in_partial,
                pending_partial_timer, pending_and_timer, timer_threads, command_queue,
                speech_position, detailed_file, exited>>

\* None of Python
None == "none"

\* dict.get(key, default)
Get(params, key, default) == IF key \in DOMAIN params THEN params[key] ELSE default

(***************************************************************************)
(* The scene.  scene_context.json is a document outside the code, so the   *)
(* model starts from one of a few small scenes: three items, of which      *)
(* "pickle" never has an ingredient slot among the locations; a scene      *)
(* without constraints (the code's default max_stack_height) in which only *)
(* bread has a slot; and scenes with a small max_stack_height in which     *)
(* cheese has one too, with and without the assembly fixture.              *)
(***************************************************************************)
Items == {"bread", "cheese", "pickle"}

ItemArgs == Items \cup {"avocado", ""}

SlotOf == [i \in ItemArgs |->
             CASE i = "bread"   -> "bread_slot"
               [] i = "cheese"  -> "cheese_slot"
               [] i = "pickle"  -> "pickle_slot"
               [] i = "avocado" -> "avocado_slot"
               [] OTHER         -> "_slot"]

FullLocations == {"home", "bread_slot", "cheese_slot", "assembly_fixture", "plate_1"}

SmallMaxStack == 3

NoConstraints == [k \in {} |-> 0]

Scenes ==
    { [locations |-> FullLocations \ {"cheese_slot"}, constraints |-> NoConstraints],
      [locations |-> FullLocations, constraints |-> [max_stack_height |-> SmallMaxStack]],
      [locations |-> FullLocations \ {"assembly_fixture"},
       constraints |-> [max_stack_height |-> SmallMaxStack]] }

\* locations[loc]["type"] == "item_stack" and its "item"
StackItemAt(loc) ==
    CASE loc = "bread_slot"  -> "bread"
      [] loc = "cheese_slot" -> "cheese"
      [] OTHER               -> None

PlateArgs == {"plate_1", "plate_9"}

Directions == {"right", "left", "up", "down", "forward", "backward"}

\* The default of constraints.get("max_stack_height", 8)
DefaultMaxStackHeight == 8

\* constraints.get("max_stack_height", 8)
max_stack_height == Get(constraints, "max_stack_height", DefaultMaxStackHeight)

SPEED_MAP(word) ==
    CASE word \in {"slow", "slower", "careful", "gentle", "easy", "nice and neat"} -> "slow"
      [] word \in {"normal", "regular", "default"} -> "normal"
      [] word \in {"fast", "faster", "quick", "hurry", "speed up"} -> "fast"
      [] OTHER -> None

\* SPEED_MULTIPLIERS, in tenths
SPEED_MULTIPLIERS == [slow |-> 5, normal |-> 10, fast |-> 15]

SpeedWords == {"slow", "careful", "normal", "fast", "quick", "warp"}

NoParams == [k \in {} |-> ""]

(***************************************************************************)
(* The executor's world: w.sx is the SandwichExecutor, w.st the scene      *)
(* state, w.file the state of the scene-context document, w.n the number   *)
(* of motion commands sent (_send_and_wait calls), w.shared whether the    *)
(* sub-executor's assembly_stack is the very list of the scene state, as   *)
(* it is from __init__ until one of the two is assigned a new list.  Every *)
(* handler maps a world to [ok, w].                                        *)
(***************************************************************************)
World ==
    [sx |-> sandwich, st |-> scene_state, file |-> scene_file, n |-> 0,
     shared |-> stack_shared]

Ok(w) == [ok |-> TRUE, w |-> w]

Fail(w) == [ok |-> FALSE, w |-> w]

\* InstructionExecutor._execute_move_to
ExecMoveTo(w, params) ==
    LET location == Get(params, "location", "")
    IN  IF location = "" THEN Fail(w)
        ELSE IF location \notin locations THEN Fail(w)
        ELSE Ok([w EXCEPT !.st.current_position = location, !.n = @ + 1])

\* InstructionExecutor._execute_move_relative
ExecMoveRelative(w, params) ==
    LET direction == Get(params, "direction", "")
    IN  IF direction \notin Directions THEN Fail(w)
        ELSE Ok([w EXCEPT !.n = @ + 1])

\* InstructionExecutor._execute_gripper_open
ExecGripperOpen(w) ==
    Ok([w EXCEPT !.st.gripper = "open", !.st.holding = None])

\* InstructionExecutor._execute_gripper_close
ExecGripperClose(w) ==
    LET current_loc == w.st.current_position
        item == IF current_loc \in locations THEN StackItemAt(current_loc) ELSE None
    IN  Ok([w EXCEPT !.st.gripper = "closed",
                     !.st.holding = IF item # None THEN item ELSE @])

\* InstructionCompiler.save_scene_context
save_scene_context(w) == [w EXCEPT !.file = w.st]

\* SandwichExecutor._save_state; the scene state gets a copy of the stack
SaveState(w) ==
    save_scene_context([w EXCEPT !.st.assembly_stack = w.sx.assembly_stack,
                                 !.st.assembly_stack_height = w.sx.assembly_stack_height,
                                 !.st.speed = w.sx.speed,
                                 !.shared = FALSE])

\* SandwichExecutor.execute_set_speed
ExecSetSpeed(w, params) ==
    LET raw_speed == Get(params, "speed", "normal")
        mapped == IF SPEED_MAP(raw_speed) # None THEN SPEED_MAP(raw_speed) ELSE raw_speed
        canonical == IF mapped \in DOMAIN SPEED_MULTIPLIERS THEN mapped ELSE "normal"
    IN  Ok(SaveState([w EXCEPT !.sx.speed = canonical,
                               !.sx.speed_multiplier = SPEED_MULTIPLIERS[canonical]]))

\* SandwichExecutor.execute_adjust_speed
ExecAdjustSpeed(w, params) ==
    LET modifier == Get(params, "modifier", "normal")
        canonical == IF SPEED_MAP(modifier) # None THEN SPEED_MAP(modifier) ELSE "normal"
    IN  ExecSetSpeed(w, [speed |-> canonical])

\* A call of one of the base executor's primitive handlers
Motion(instruction, params) == [instruction |-> instruction, params |-> params]

ExecBase(w, m) ==
    CASE m.instruction = "move_to"       -> ExecMoveTo(w, m.params)
      [] m.instruction = "move_relative" -> ExecMoveRelative(w, m.params)
      [] m.instruction = "gripper_open"  -> ExecGripperOpen(w)
      [] m.instruction = "gripper_close" -> ExecGripperClose(w)

\* A chain of handler calls, each followed by "if not success: return False"
RECURSIVE RunMotions(_, _)
RunMotions(w, ms) ==
    IF ms = <<>> THEN Ok(w)
    ELSE LET r == ExecBase(w, Head(ms))
         IN  IF r.ok THEN RunMotions(r.w, Tail(ms)) ELSE r

StackFullOffByOne(height) == height > max_stack_height

\* The stack-full test of execute_add_layer
StackFull(height) == height >= max_stack_height

\* SandwichExecutor.execute_add_layer
ExecAddLayer(w, params) ==
    LET item == Get(params, "item", "")
        r == RunMotions(w, << Motion("move_to", [location |-> SlotOf[item]]),
                              Motion("gripper_close", NoParams),
                              Motion("move_relative", [direction |-> "up"]),
                              Motion("move_to", [location |-> "assembly_fixture"]),
                              Motion("move_relative", [direction |-> "down"]),
                              Motion("gripper_open", NoParams),
                              Motion("move_relative", [direction |-> "up"]) >>)
    IN  IF item = "" THEN Fail(w)
        ELSE IF item \notin Items THEN Fail(w)
        ELSE IF StackFull(w.sx.assembly_stack_height) THEN Fail(w)
        ELSE IF ~r.ok THEN r
        ELSE Ok(SaveState([r.w EXCEPT !.sx.assembly_stack = Append(@, item),
                                      !.sx.assembly_stack_height = @ + 1,
                                      !.st.holding = None]))

DeliverWithoutReset(w, plate) ==
    SaveState([w EXCEPT !.st.plates = (plate :> w.sx.assembly_stack) @@ @,
                        !.st.holding = None])

\* The end of execute_serve: the stack is recorded under the plate, the
\* assembly is reset, and the state is saved
Deliver(w, plate) ==
    SaveState([w EXCEPT !.st.plates = (plate :> w.sx.assembly_stack) @@ @,
                        !.sx.assembly_stack = <<>>,
                        !.sx.assembly_stack_height = 0,
                        !.st.holding = None])

\* SandwichExecutor.execute_serve
ExecServe(w, params) ==
    LET plate == Get(params, "plate", "plate_1")
        r == RunMotions(w, << Motion("move_to", [location |-> "assembly_fixture"]),
                              Motion("gripper_close", NoParams),
                              Motion("move_relative", [direction |-> "up"]),
                              Motion("move_to", [location |-> plate]),
                              Motion("move_relative", [direction |-> "down"]),
                              Motion("gripper_open", NoParams),
                              Motion("move_relative", [direction |-> "up"]) >>)
    IN  IF plate \notin locations THEN Fail(w)
        ELSE IF w.sx.assembly_stack = <<>> THEN Fail(w)
        ELSE IF ~r.ok THEN r
        ELSE Ok(Deliver(r.w, plate))

\* One round of the while loop of execute_clear_assembly: the top item goes
\* back to its slot, then the stack is popped
ClearTop(w) ==
    LET item == w.sx.assembly_stack[Len(w.sx.assembly_stack)]
        r == RunMotions(w, << Motion("move_to", [location |-> "assembly_fixture"]),
                              Motion("move_relative", [direction |-> "down"]),
                              Motion("gripper_close", NoParams),
                              Motion("move_relative", [direction |-> "up"]),
                              Motion("move_to", [location |-> SlotOf[item]]),
                              Motion("move_relative", [direction |-> "down"]),
                              Motion("gripper_open", NoParams),
                              Motion("move_relative", [direction |-> "up"]) >>)
    IN  IF ~r.ok THEN r
        ELSE Ok([r.w EXCEPT !.sx.assembly_stack = SubSeq(@, 1, Len(@) - 1),
                            !.sx.assembly_stack_height = @ - 1,
                            !.st.assembly_stack = IF r.w.shared THEN SubSeq(@, 1, Len(@) - 1)
                                                  ELSE @])

RECURSIVE ClearLoop(_)
ClearLoop(w) ==
    IF w.sx.assembly_stack = <<>>
    THEN Ok(SaveState([w EXCEPT !.st.holding = None]))
    ELSE LET r == ClearTop(w) IN IF r.ok THEN ClearLoop(r.w) ELSE r

LeaveAssembly(w) == Ok(w)

\* SandwichExecutor.execute_clear_assembly
ExecClearAssembly(w) ==
    IF w.sx.assembly_stack = <<>> THEN Ok(w) ELSE ClearLoop(w)

(***************************************************************************)
(* The sub-executor's operations, called directly.                         *)
(***************************************************************************)
InitExec ==
    /\ \E scene \in Scenes : locations = scene.locations /\ constraints = scene.constraints
    /\ sandwich = [assembly_stack |-> <<>>, assembly_stack_height |-> 0,
                   speed |-> "normal", speed_multiplier |-> 10]
    /\ scene_state = [gripper |-> "open", holding |-> None, current_position |-> "home",
                      assembly_stack |-> <<>>, assembly_stack_height |-> 0,
                      speed |-> "normal", plates |-> [p \in {} |-> <<>>]]
    /\ scene_file = scene_state
    /\ lastCall = [op |-> "none", arg |-> "", ok |-> TRUE, pre |-> sandwich, motions |-> 0,
                   run |-> 1]
    /\ stack_shared = TRUE

Called(op, arg, r) ==
    /\ sandwich' = r.w.sx
    /\ scene_state' = r.w.st
    /\ scene_file' = r.w.file
    /\ lastCall' = [op |-> op, arg |-> arg, ok |-> r.ok, pre |-> sandwich, motions |-> r.w.n,
                    run |-> lastCall.run]
    /\ stack_shared' = r.w.shared
    /\ UNCHANGED <<locations, constraints>>

AddLayer ==
    \E item \in ItemArgs :
        Called("add_layer", item,
               ExecAddLayer(World, IF item = "" THEN NoParams ELSE [item |-> item]))

Serve ==
    \E plate \in PlateArgs : Called("serve", plate, ExecServe(World, [plate |-> plate]))

ClearAssembly == Called("clear_assembly", "", ExecClearAssembly(World))

SetSpeed ==
    \E word \in SpeedWords : Called("set_speed", word, ExecSetSpeed(World, [speed |-> word]))

AdjustSpeed ==
    \E word \in SpeedWords :
        Called("adjust_speed", word, ExecAdjustSpeed(World, [modifier |-> word]))

\* The runs of the program that are explored
MaxRuns == 2

\* A new run: the compiler loads the scene document, whose locations and
\* constraints may have been edited since it was written, and
\* SandwichExecutor.__init__ takes the stack and the height of its state
Restart ==
    /\ lastCall.run < MaxRuns
    /\ \E scene \in Scenes : locations' = scene.locations /\ constraints' = scene.constraints
    /\ scene_state' = scene_file
    /\ sandwich' = [assembly_stack |-> scene_file.assembly_stack,
                    assembly_stack_height |-> scene_file.assembly_stack_height,
                    speed |-> "normal", speed_multiplier |-> 10]
    /\ stack_shared' = TRUE
    /\ lastCall' = [op |-> "init", arg |-> "", ok |-> TRUE, pre |-> sandwich', motions |-> 0,
                    run |-> lastCall.run + 1]
    /\ UNCHANGED scene_file


(***************************************************************************)
(* execute_step and execute_plan.  A step is an ExecutionStep; the plan    *)
(* runs one step of its for loop per action.                               *)
(***************************************************************************)
Step(instruction, params, is_primitive) ==
    [instruction |-> instruction, params |-> params, is_primitive |-> is_primitive]

EmptyTable == {}

\* The static table of execute_step
PrimitiveTable == {"move_to", "move_relative", "gripper_open", "gripper_close",
                   "wait", "set_speed"}

\* SandwichExecutor._handlers / can_handle
can_handle(instruction) ==
    instruction \in {"add_layer", "serve", "clear_assembly", "set_speed", "adjust_speed"}

\* InstructionExecutor.execute_step
ExecuteStep(w, step) ==
    IF step.instruction \in PrimitiveTable
    THEN CASE step.instruction = "move_to"       -> ExecMoveTo(w, step.params)
           [] step.instruction = "move_relative" -> ExecMoveRelative(w, step.params)
           [] step.instruction = "gripper_open"  -> ExecGripperOpen(w)
           [] step.instruction = "gripper_close" -> ExecGripperClose(w)
           [] step.instruction = "wait"          -> Ok(w)
           [] step.instruction = "set_speed"     -> ExecSetSpeed(w, step.params)
    ELSE IF can_handle(step.instruction)
    THEN CASE step.instruction = "add_layer"      -> ExecAddLayer(w, step.params)
           [] step.instruction = "serve"          -> ExecServe(w, step.params)
           [] step.instruction = "clear_assembly" -> ExecClearAssembly(w)
           [] step.instruction = "set_speed"      -> ExecSetSpeed(w, step.params)
           [] step.instruction = "adjust_speed"   -> ExecAdjustSpeed(w, step.params)
    ELSE Fail(w)

StepAlphabet ==
    { Step("move_to", [location |-> "bread_slot"], TRUE),
      Step("move_to", [location |-> "nowhere"], TRUE),
      Step("move_relative", [direction |-> "up"], TRUE),
      Step("gripper_close", NoParams, TRUE),
      Step("gripper_open", NoParams, TRUE),
      Step("wait", NoParams, TRUE),
      Step("set_speed", [speed |-> "fast"], TRUE),
      Step("add_layer", [item |-> "bread"], TRUE),
      Step("add_layer", [item |-> "avocado"], TRUE),
      Step("serve", [plate |-> "plate_1"], TRUE),
      Step("clear_assembly", NoParams, TRUE),
      Step("fly", NoParams, TRUE),
      Step("pick_up", [item |-> "bread"], FALSE) }

MaxPlanLen == 3

Plans == UNION { [1..n -> StepAlphabet] : n \in 0..MaxPlanLen }

InitPlan ==
    /\ plan = <<>>
    /\ plan_pc = 0
    /\ plan_result = "none"
    /\ exec_log = <<>>
    /\ plan_start = World

\* The call of execute_plan(plan)
PlanCall ==
    /\ plan_pc = 0
    /\ \E p \in Plans : plan' = p
    /\ plan_pc' = 1
    /\ plan_start' = World
    /\ UNCHANGED <<plan_result, exec_log, execVars>>

PlanNeverAborts(success) == FALSE

\* "if not success: return False"
PlanAborts(success) == ~success

\* One round of the for loop of execute_plan
PlanStep ==
    /\ plan_pc \in 1..Len(plan)
    /\ plan_result = "none"
    /\ LET step == plan[plan_pc]
           r == ExecuteStep(World, step)
       IN  IF ~step.is_primitive
           THEN /\ plan_result' = "false"
                /\ UNCHANGED <<plan_pc, exec_log, execVars>>
           ELSE /\ sandwich' = r.w.sx
                /\ scene_state' = r.w.st
                /\ scene_file' = r.w.file
                /\ stack_shared' = r.w.shared
                /\ exec_log' = Append(exec_log, [step |-> step, ok |-> r.ok])
                /\ plan_result' = IF PlanAborts(r.ok) THEN "false" ELSE "none"
                /\ plan_pc' = plan_pc + 1
                /\ UNCHANGED <<locations, constraints, lastCall>>
    /\ UNCHANGED <<plan, plan_start>>

\* The loop ran out of steps: "return True"
PlanReturn ==
    /\ plan_pc = Len(plan) + 1
    /\ plan_result = "none"
    /\ plan_result' = "true"
    /\ UNCHANGED <<plan, plan_pc, exec_log, plan_start, execVars>>

(***************************************************************************)
(* The acknowledgment handshake.  _send_and_wait writes a move to          *)
(* tcp_commands.json and polls tcp_ack.json; the actuator notices that the *)
(* command file changed, moves, and writes its acknowledgment.  Time is in *)
(* ticks; every reading of the clock that stamps something is followed by  *)
(* a tick, so what happened earlier has the smaller stamp.  A position is  *)
(* the number of the move that asked for it; position 0 is where the arm   *)
(* starts.  Every write of the command file carries its number as history. *)
(***************************************************************************)
MaxTime == 11

MaxCmds == 2

MaxStalePolls == 2

\* ACK_TIMEOUT, in ticks
ACK_TIMEOUT == 5

NoFile == [exists |-> FALSE]

InitAck ==
    /\ now = 1
    /\ cmd_file = NoFile
    /\ ack_file = NoFile
    /\ unity = [last_modified |-> 0, moving |-> FALSE, cmd |-> NoFile]
    /\ sender = [pc |-> "idle", id |-> 0, output |-> 0, write_time |-> 0, deadline |-> 0,
                 polls |-> 0, stale_polls |-> 0]
    /\ current_position = 0
    /\ gripper_position = 11
    /\ next_id = 1
    /\ ack_log = <<>>

\* Time passes
Tick ==
    /\ now < MaxTime
    /\ now' = now + 1
    /\ UNCHANGED <<cmd_file, ack_file, unity, sender, current_position, gripper_position,
                   next_id, ack_log>>

\* _send_and_wait, up to the polling loop: write_time = time.time(), then the
\* write of the position and of the gripper value.  A call starts only while
\* its deadline is within the time that is modelled.
SendAndWaitWrite ==
    /\ sender.pc = "idle"
    /\ next_id <= MaxCmds
    /\ now + ACK_TIMEOUT <= MaxTime
    /\ cmd_file' = [exists |-> TRUE, id |-> next_id, kind |-> "move", position |-> next_id,
                    gripper |-> gripper_position, mtime |-> now]
    /\ sender' = [pc |-> "polling", id |-> next_id, output |-> next_id, write_time |-> now,
                  deadline |-> now + ACK_TIMEOUT, polls |-> 0, stale_polls |-> 0]
    /\ next_id' = next_id + 1
    /\ now' = now + 1
    /\ UNCHANGED <<ack_file, unity, current_position, gripper_position, ack_log>>

\* _execute_gripper_open (0.11 m) and _execute_gripper_close (0.0 m), in
\* centimetres: the gripper value is set and
\* _write_position_to_file(self.current_position) writes it, fire and forget
WritePositionToFile ==
    /\ sender.pc = "idle"
    /\ next_id <= MaxCmds
    /\ now < MaxTime
    /\ \E metres \in {0, 11} :
          /\ gripper_position' = metres
          /\ cmd_file' = [exists |-> TRUE, id |-> next_id, kind |-> "gripper",
                          position |-> current_position, gripper |-> metres, mtime |-> now]
    /\ next_id' = next_id + 1
    /\ now' = now + 1
    /\ UNCHANGED <<ack_file, unity, sender, current_position, ack_log>>

AckNeverStale(ack_mtime, write_time) == FALSE

\* "if ack_mtime < write_time: continue"
AckIsStale(ack_mtime, write_time) == ack_mtime < write_time

NeverTimedOut(time, deadline) == FALSE

\* "while time.time() < deadline" is over
TimedOut(time, deadline) == time >= deadline

\* What a poll would find in tcp_ack.json
AckState(write_time) ==
    IF ~ack_file.exists THEN "missing"
    ELSE IF AckIsStale(ack_file.mtime, write_time) THEN "stale"
    ELSE IF ~ack_file.readable THEN "unreadable"
    ELSE IF ack_file.completed THEN "completed"
    ELSE "incomplete"

\* 'confirmed = ack.get("position", {})', then
\* 'if "gripper_position" in confirmed: self.gripper_position = ...'
SyncGripper(local, ack) ==
    IF ack.gripper_in = "position" THEN ack.gripper ELSE local

\* "return output" after the loop: the commanded position
TimeoutPosition(output) == output

\* The return of _send_and_wait, and "self.current_position = confirmed".
\* keys are the keys of the dict that is returned.
SendAndWaitReturn(result, confirmed, keys, gripper) ==
    /\ current_position' = confirmed
    /\ gripper_position' = gripper
    /\ ack_log' = Append(ack_log,
                         [id |-> sender.id, result |-> result, confirmed |-> confirmed,
                          keys |-> keys,
                          write_time |-> sender.write_time,
                          returned_at |-> now,
                          polls |-> sender.polls,
                          stale_polls |-> sender.stale_polls,
                          ack_state |-> AckState(sender.write_time),
                          gripper_before |-> gripper_position,
                          gripper_after |-> gripper,
                          ack_mtime |-> IF result = "ack" THEN ack_file.mtime ELSE 0,
                          ack_of |-> IF result = "ack" THEN ack_file.of ELSE 0,
                          ack_of_kind |-> IF result = "ack" THEN ack_file.of_kind ELSE None,
                          ack_position |-> IF result = "ack" THEN ack_file.position ELSE 0,
                          ack_gripper_in |-> IF result = "ack" THEN ack_file.gripper_in
                                             ELSE "none",
                          ack_gripper |-> IF result = "ack" THEN ack_file.gripper ELSE 0])
    /\ sender' = [sender EXCEPT !.pc = "idle", !.polls = 0, !.stale_polls = 0]

\* "continue": one more round of the loop is behind
Continue(stale) ==
    /\ sender' = [sender EXCEPT !.polls = @ + 1,
                                !.stale_polls = IF stale /\ @ < MaxStalePolls THEN @ + 1 ELSE @]
    /\ UNCHANGED <<current_position, gripper_position, ack_log>>

\* One round of the polling loop of _send_and_wait, which starts with
\* time.sleep(ACK_POLL_INTERVAL), one tick: a missing, a stale, an unreadable
\* and an unfinished acknowledgment all end in "continue"
Poll ==
    /\ sender.pc = "polling"
    /\ ~TimedOut(now, sender.deadline)
    /\ now < MaxTime
    /\ now' = now + 1
    /\ IF ~ack_file.exists
       THEN Continue(FALSE)
       ELSE IF AckIsStale(ack_file.mtime, sender.write_time)
       THEN Continue(TRUE)
       ELSE IF ~ack_file.readable
       THEN Continue(FALSE)
       ELSE IF ack_file.completed
       THEN SendAndWaitReturn("ack", ack_file.position, {"x", "y", "z"},
                              SyncGripper(gripper_position, ack_file))
       ELSE Continue(FALSE)
    /\ UNCHANGED <<cmd_file, ack_file, unity, next_id>>

\* The loop ran out of time: "return output", the dict that was written
AckTimeout ==
    /\ sender.pc = "polling"
    /\ TimedOut(now, sender.deadline)
    /\ SendAndWaitReturn("timeout", TimeoutPosition(sender.output),
                         {"x", "y", "z", "gripper_position"}, gripper_position)
    /\ UNCHANGED <<now, cmd_file, ack_file, unity, next_id>>

\* FakeUnity._check_for_command, and the read of _process_command
UnityCheckForCommand ==
    /\ ~unity.moving
    /\ cmd_file.exists
    /\ unity.last_modified # cmd_file.mtime
    /\ unity' = [last_modified |-> cmd_file.mtime, moving |-> TRUE, cmd |-> cmd_file]
    /\ UNCHANGED <<now, cmd_file, ack_file, sender, current_position, gripper_position,
                   next_id, ack_log>>

\* Where an acknowledgment carries the gripper value: nowhere, inside its
\* "position" (FakeUnity answers with the whole command as the position), or
\* in the record itself
GripperPlaces == {"none", "position", "record"}

\* FakeUnity._process_command after its sleep: the acknowledgment is written.
\* Its position is that of the command; the gripper value is what the
\* actuator reports.
UnityWriteAck ==
    /\ unity.moving
    /\ now < MaxTime
    /\ \E gripper_in \in GripperPlaces, metres \in {0, 11} :
          /\ gripper_in = "none" => metres = 0
          /\ ack_file' =
                 [exists |-> TRUE, readable |-> TRUE, completed |-> TRUE,
                  position |-> unity.cmd.position,
                  gripper_in |-> gripper_in, gripper |-> metres,
                  of |-> unity.cmd.id, of_kind |-> unity.cmd.kind, mtime |-> now]
    /\ unity' = [unity EXCEPT !.moving = FALSE]
    /\ now' = now + 1
    /\ UNCHANGED <<cmd_file, sender, current_position, gripper_position, next_id, ack_log>>

\* An actuator that is not done: tcp_ack.json is caught half written, which
\* json.load rejects, or holds an acknowledgment without "completed": true
UnityWriteUnfinished ==
    /\ unity.moving
    /\ now < MaxTime
    /\ \E readable \in BOOLEAN :
          ack_file' = [exists |-> TRUE, readable |-> readable, completed |-> FALSE,
                       position |-> unity.cmd.position, gripper_in |-> "none", gripper |-> 0,
                       of |-> unity.cmd.id, of_kind |-> unity.cmd.kind, mtime |-> now]
    /\ now' = now + 1
    /\ UNCHANGED <<cmd_file, unity, sender, current_position, gripper_position, next_id,
                   ack_log>>

learnVars == <<phrases, sequence_phrases, pending_confirmation, process_result,
               silent_learning>>

interpVars == <<interp_pc, voice_command, interp_result, interp_outcome, passes>>

compileVars == <<instruction_set, instruction_file, learn_call, learn_result, compile_call>>

(***************************************************************************)
(* The speech handlers.  A text is a sequence of lower-case words; the     *)
(* empty text is <<>>.  Deltas and positions are in tenths of a Unity unit *)
(* (DISTANCE_SCALE = 0.1), so a distance of n cm is a delta of n.          *)
(* process_multi_command_sentence is modelled on its simple-parser path    *)
(* (PRECISE_MODE and ENABLE_SEQUENCES at their defaults, no phrase bank).  *)
(***************************************************************************)
EMERGENCY_WORDS == {"stop", "halt", "emergency", "quit", "exit"}

\* check_for_emergency_words
check_for_emergency_words(text) == \E i \in 1..Len(text) : text[i] \in EMERGENCY_WORDS

WordLen(w) ==
    CASE w \in {"5"}                   -> 1
      [] w \in {"go", "up", "cm", "to"} -> 2
      [] w \in {"and", "the"}          -> 3
      [] w \in {"then", "stop", "left"} -> 4
      [] OTHER                         -> 5

\* len(text)
RECURSIVE CharLen(_)
CharLen(text) ==
    IF text = <<>> THEN 0
    ELSE WordLen(Head(text)) + (IF Len(text) > 1 THEN 1 ELSE 0) + CharLen(Tail(text))

\* ' and ' in text or ' then ' in text
HasConnector(text) == \E i \in 2..(Len(text) - 1) : text[i] \in {"and", "then"}

\* text.startswith(prefix), on whole words
StartsWith(text, prefix) ==
    Len(prefix) <= Len(text) /\ SubSeq(text, 1, Len(prefix)) = prefix

\* "captured in executed", on whole words
Contains(text, part) ==
    \E i \in 0..(Len(text) - Len(part)) : SubSeq(text, i + 1, i + Len(part)) = part

\* The incomplete_endings of _on_recognizing
EndsIncomplete(text) ==
    Len(text) >= 2 /\ text[Len(text)] \in {"and", "then", "to", "the", "a", "move", "go"}

DirectionWords == {"right", "left", "up", "down", "forward", "forwards", "backward",
                   "backwards", "back", "upward", "upwards", "downward", "downwards"}

\* A part of the sentence, or one of the markers |THEN| and |AND|
Part(mark, words) == [mark |-> mark, words |-> words]

Flush(out, cur) == IF cur = <<>> THEN out ELSE Append(out, Part("", cur))

\* The substitutions and the split of split_into_commands
RECURSIVE SplitParts(_, _, _, _)
SplitParts(text, i, cur, out) ==
    IF i > Len(text) THEN Flush(out, cur)
    ELSE IF i > 1 /\ i + 1 < Len(text) /\ text[i] = "and" /\ text[i + 1] = "then"
    THEN SplitParts(text, i + 2, <<>>, Append(Flush(out, cur), Part("THEN", <<>>)))
    ELSE IF i > 1 /\ i < Len(text) /\ text[i] = "then"
    THEN SplitParts(text, i + 1, <<>>, Append(Flush(out, cur), Part("THEN", <<>>)))
    ELSE IF i > 1 /\ i < Len(text) /\ text[i] = "and"
    THEN SplitParts(text, i + 1, <<>>, Append(Flush(out, cur), Part("AND", <<>>)))
    ELSE SplitParts(text, i + 1, Append(cur, text[i]), out)

RECURSIVE CommandsOf(_, _)
CommandsOf(parts, i) ==
    IF i > Len(parts) THEN <<>>
    ELSE IF parts[i].mark # "" THEN CommandsOf(parts, i + 1)
    ELSE << [cmd |-> parts[i].words,
             combine |-> (i > 1 /\ parts[i - 1].mark = "AND")] >> \o CommandsOf(parts, i + 1)

\* split_into_commands
split_into_commands(text) == CommandsOf(SplitParts(text, 1, <<>>, <<>>), 1)

Zero == [x |-> 0, y |-> 0, z |-> 0]

\* apply_delta_to_position
apply_delta_to_position(position, delta) ==
    [x |-> position.x + delta.x, y |-> position.y + delta.y, z |-> position.z + delta.z]

Has(text, w) == \E i \in 1..Len(text) : text[i] = w

\* parse_movement_command: the first number is the distance, 1 without one
parse_movement_command(text) ==
    LET distance == IF Has(text, "5") THEN 5 ELSE 1
        x == IF Has(text, "left") THEN 0 - distance
             ELSE IF Has(text, "right") THEN distance ELSE 0
        y == IF Has(text, "down") THEN 0 - distance
             ELSE IF Has(text, "up") THEN distance ELSE 0
    IN  [x |-> x, y |-> y, z |-> 0]

\* found_direction of parse_movement_command: without it the result is None
found_direction(text) ==
    Has(text, "right") \/ Has(text, "left") \/ Has(text, "up") \/ Has(text, "down")

\* " and ".join(accumulated_text)
RECURSIVE Joined(_)
Joined(texts) ==
    IF texts = <<>> THEN <<>>
    ELSE IF Len(texts) = 1 THEN texts[1]
    ELSE texts[1] \o <<"and">> \o Joined(Tail(texts))

\* The loop of process_multi_command_sentence over the split commands; s holds
\* temp_position, accumulated_delta, accumulated_text and positions
RECURSIVE MultiLoop(_, _, _)
MultiLoop(commands, i, s) ==
    IF i > Len(commands) THEN s.positions
    ELSE
      LET cmd == commands[i].cmd
          delta == parse_movement_command(cmd)
          is_last == i = Len(commands)
          flushed ==
              LET t == apply_delta_to_position(s.temp, s.acc)
              IN  [temp |-> t, acc |-> Zero, acc_text |-> <<>>,
                   positions |-> Append(s.positions,
                                        [position |-> t, command_text |-> Joined(s.acc_text),
                                         delta |-> s.acc])]
      IN  IF ~found_direction(cmd) THEN MultiLoop(commands, i + 1, s)
          ELSE IF commands[i].combine
          THEN LET a == [s EXCEPT !.acc = apply_delta_to_position(s.acc, delta),
                                  !.acc_text = Append(s.acc_text, cmd)]
                   t == apply_delta_to_position(a.temp, a.acc)
               IN  IF is_last \/ ~commands[i + 1].combine
                   THEN MultiLoop(commands, i + 1,
                            [temp |-> t, acc |-> Zero, acc_text |-> <<>>,
                             positions |-> Append(a.positions,
                                 [position |-> t, command_text |-> Joined(a.acc_text),
                                  delta |-> a.acc])])
                   ELSE MultiLoop(commands, i + 1, a)
          ELSE LET b == IF s.acc_text # <<>> THEN flushed ELSE s
                   c == [b EXCEPT !.acc = delta, !.acc_text = <<cmd>>]
                   t == apply_delta_to_position(c.temp, c.acc)
               IN  IF is_last
                   THEN MultiLoop(commands, i + 1,
                            [c EXCEPT !.temp = t,
                                      !.positions = Append(c.positions,
                                          [position |-> t, command_text |-> cmd,
                                           delta |-> delta])])
                   ELSE MultiLoop(commands, i + 1, c)

\* process_multi_command_sentence(text), from the position `current`
process_multi_command_sentence(text, current) ==
    MultiLoop(split_into_commands(text), 1,
              [temp |-> current, acc |-> Zero, acc_text |-> <<>>, positions |-> <<>>])

(***************************************************************************)
(* The recognizer's callbacks and the two timers.  An utterance is heard   *)
(* as growing prefixes of its final text (the partials) and then the final *)
(* text.  A threading.Timer that has not fired is armed; when it fires its *)
(* callback becomes a thread waiting for partial_lock, which cancel() no   *)
(* longer stops.  Every handler body runs under partial_lock, so it is one *)
(* step.                                                                   *)
(***************************************************************************)
MaxUtterances == 2

Utterances ==
    { <<"go", "right", "5", "cm">>,
      <<"go", "right", "and", "go", "up">>,
      <<"go", "right", "5", "then", "go", "up", "5">>,
      <<"go", "up", "5", "then", "stop">>,
      <<"stop">> }

NoTimer == [live |-> FALSE, armed |-> FALSE, text |-> <<>>, utt |-> 0]

\* threading.Timer(delay, callback, args=[text]).start()
Timer(text) == [live |-> TRUE, armed |-> TRUE, text |-> text, utt |-> utt]

\* emergency_halt.is_set(): the event is created and never set
emergency_halt_is_set == FALSE

InitSpeech ==
    /\ utt = 0
    /\ heard = <<>>
    /\ phase = "idle"
    /\ partial_len = 0
    /\ last_partial_text = <<>>
    /\ executed_in_partial = <<>>
    /\ pending_partial_timer = NoTimer
    /\ pending_and_timer = NoTimer
    /\ timer_threads = {}
    /\ command_queue = <<>>
    /\ speech_position = Zero
    /\ detailed_file = [total_commands |-> 0, emergency_halt |-> FALSE]
    /\ exited = FALSE

RECURSIVE Tagged(_, _)
Tagged(positions, u) ==
    IF positions = <<>> THEN <<>>
    ELSE << [utt |-> u, position |-> Head(positions).position,
             delta |-> Head(positions).delta, text |-> Head(positions).command_text] >>
         \o Tagged(Tail(positions), u)

\* add_positions_to_queue, with save_command_queue
add_positions_to_queue(positions, u) ==
    IF positions = <<>>
    THEN UNCHANGED <<command_queue, speech_position, detailed_file>>
    ELSE /\ command_queue' = command_queue \o Tagged(positions, u)
         /\ speech_position' = positions[Len(positions)].position
         /\ detailed_file' = [total_commands |-> Len(command_queue) + Len(positions),
                              emergency_halt |-> emergency_halt_is_set]

\* emergency_shutdown: os._exit(0)
emergency_shutdown ==
    /\ exited' = TRUE
    /\ UNCHANGED <<last_partial_text, executed_in_partial, pending_partial_timer,
                   pending_and_timer, timer_threads, command_queue, speech_position,
                   detailed_file>>

\* A new utterance begins
Speak ==
    /\ ~exited
    /\ phase = "idle"
    /\ utt < MaxUtterances
    /\ \E text \in Utterances : heard' = text
    /\ utt' = utt + 1
    /\ phase' = "speaking"
    /\ partial_len' = 0
    /\ UNCHANGED <<last_partial_text, executed_in_partial, pending_partial_timer,
                   pending_and_timer, timer_threads, command_queue, speech_position,
                   detailed_file, exited>>

\* MicToAzureStream._on_recognizing
OnRecognizing ==
    /\ ~exited
    /\ phase = "speaking"
    /\ \E n \in (partial_len + 1)..Len(heard) :
         LET text == SubSeq(heard, 1, n)
             skip == \/ EndsIncomplete(text)
                     \/ text[Len(text)] \in DirectionWords /\ Len(text) <= 4
         IN  /\ partial_len' = n
             /\ IF check_for_emergency_words(text) THEN emergency_shutdown
                ELSE /\ last_partial_text' = text
                     /\ pending_partial_timer' =
                           IF ~HasConnector(text) /\ ~skip /\ text # last_partial_text
                              /\ CharLen(text) > 3 /\ text # executed_in_partial
                           THEN Timer(text) ELSE NoTimer
                     /\ pending_and_timer' =
                           IF HasConnector(text) THEN Timer(text) ELSE pending_and_timer
                     /\ UNCHANGED <<executed_in_partial, timer_threads, command_queue,
                                    speech_position, detailed_file, exited>>
    /\ UNCHANGED <<utt, heard, phase>>

\* The prefixes _on_recognized strips from the remaining text, one after another
RECURSIVE StripPrefixes(_, _)
StripPrefixes(remaining, prefixes) ==
    IF prefixes = <<>> THEN remaining
    ELSE LET p == Head(prefixes)
             r == IF Len(remaining) > Len(p) /\ StartsWith(remaining, p)
                  THEN SubSeq(remaining, Len(p) + 1, Len(remaining)) ELSE remaining
         IN  StripPrefixes(r, Tail(prefixes))

\* What _on_recognized hands to process_multi_command_sentence: the final
\* text, or what remains of it after the text a partial executed (<<>>: nothing)
FinalToExecute(final_text, executed) ==
    IF executed = <<>> THEN final_text
    ELSE IF final_text = executed \/ StartsWith(final_text, executed)
    THEN LET remaining == StripPrefixes(
                              SubSeq(final_text, Len(executed) + 1, Len(final_text)),
                              << <<"and">>, <<"then">>, <<"and", "to", "the">>,
                                 <<"to", "the">> >>)
         IN  IF remaining # <<>> /\ CharLen(remaining) > 2 THEN remaining ELSE <<>>
    ELSE final_text

\* MicToAzureStream._on_recognized, reason RecognizedSpeech
OnRecognized ==
    /\ ~exited
    /\ phase = "speaking"
    /\ IF check_for_emergency_words(heard)
       THEN /\ exited' = TRUE
            /\ pending_partial_timer' = NoTimer
            /\ pending_and_timer' = NoTimer
            /\ UNCHANGED <<last_partial_text, executed_in_partial, timer_threads,
                           command_queue, speech_position, detailed_file>>
       ELSE /\ pending_partial_timer' = NoTimer
            /\ pending_and_timer' = NoTimer
            /\ add_positions_to_queue(
                  process_multi_command_sentence(
                      FinalToExecute(heard, executed_in_partial), speech_position), utt)
            /\ last_partial_text' = <<>>
            /\ executed_in_partial' = <<>>
            /\ UNCHANGED <<timer_threads, exited>>
    /\ phase' = "idle"
    /\ UNCHANGED <<utt, heard, partial_len>>

\* MicToAzureStream._on_recognized, reason NoMatch
OnNoMatch ==
    /\ ~exited
    /\ phase = "speaking"
    /\ last_partial_text' = <<>>
    /\ executed_in_partial' = <<>>
    /\ phase' = "idle"
    /\ UNCHANGED <<utt, heard, partial_len, pending_partial_timer, pending_and_timer,
                   timer_threads, command_queue, speech_position, detailed_file, exited>>

\* The debounce delay of the partial timer is over: its thread calls the callback
PartialTimerFires ==
    /\ ~exited
    /\ pending_partial_timer.armed
    /\ pending_partial_timer' = [pending_partial_timer EXCEPT !.armed = FALSE]
    /\ timer_threads' = timer_threads \cup
          {[kind |-> "partial", text |-> pending_partial_timer.text,
            utt |-> pending_partial_timer.utt]}
    /\ UNCHANGED <<utt, heard, phase, partial_len, last_partial_text, executed_in_partial,
                   pending_and_timer, command_queue, speech_position, detailed_file, exited>>

\* The and-timeout is over: its thread calls the callback
AndTimerFires ==
    /\ ~exited
    /\ pending_and_timer.armed
    /\ pending_and_timer' = [pending_and_timer EXCEPT !.armed = FALSE]
    /\ timer_threads' = timer_threads \cup
          {[kind |-> "and", text |-> pending_and_timer.text, utt |-> pending_and_timer.utt]}
    /\ UNCHANGED <<utt, heard, phase, partial_len, last_partial_text, executed_in_partial,
                   pending_partial_timer, command_queue, speech_position, detailed_file,
                   exited>>

\* "captured_text.lower().strip() in self.executed_in_partial.lower()"
AlreadyExecuted(executed, captured) == Contains(executed, captured)

\* MicToAzureStream._execute_partial_command
ExecutePartialCommand ==
    /\ ~exited
    /\ \E t \in timer_threads :
         /\ t.kind = "partial"
         /\ timer_threads' = timer_threads \ {t}
         /\ IF \/ HasConnector(last_partial_text)
               \/ HasConnector(t.text)
               \/ t.text = executed_in_partial
               \/ executed_in_partial # <<>> /\ AlreadyExecuted(executed_in_partial, t.text)
               \/ process_multi_command_sentence(t.text, speech_position) = <<>>
            THEN UNCHANGED <<executed_in_partial, command_queue, speech_position,
                             detailed_file>>
            ELSE /\ add_positions_to_queue(
                       process_multi_command_sentence(t.text, speech_position), t.utt)
                 /\ executed_in_partial' = t.text
    /\ UNCHANGED <<utt, heard, phase, partial_len, last_partial_text,
                   pending_partial_timer, pending_and_timer, exited>>

\* MicToAzureStream._execute_and_timeout
ExecuteAndTimeout ==
    /\ ~exited
    /\ \E t \in timer_threads :
         /\ t.kind = "and"
         /\ timer_threads' = timer_threads \ {t}
         /\ IF \/ executed_in_partial # <<>>
               \/ t.text = <<>>
               \/ CharLen(t.text) < 3
               \/ process_multi_command_sentence(t.text, speech_position) = <<>>
            THEN UNCHANGED <<executed_in_partial, command_queue, speech_position,
                             detailed_file>>
            ELSE /\ add_positions_to_queue(
                       process_multi_command_sentence(t.text, speech_position), t.utt)
                 /\ executed_in_partial' = t.text
    /\ UNCHANGED <<utt, heard, phase, partial_len, last_partial_text,
                   pending_partial_timer, pending_and_timer, exited>>

(***************************************************************************)
(* The paths that write the phrase cache.  A confidence is a whole number  *)
(* of percent.  What the language model answers, what the user answers and *)
(* whether the execution succeeded are inputs.  Every cache entry carries, *)
(* as history, the confidence of the interpretation it came from and       *)
(* whether that interpretation was executed successfully.                  *)
(***************************************************************************)
\* LLM_CONFIDENCE_THRESHOLD, in percent
LLM_CONFIDENCE_THRESHOLD == 80

Confidences == {50, 79, 80}

PhraseTexts == {"scoot over", "nudge it"}

SequenceTexts == {"make a blt"}

NoPending == [pending |-> FALSE]

Intents == {"move_relative", "gripper_open"}

\* What a call of process did: the intents it gave to executor.execute, whether
\* the match it had was tagged needs_confirmation and where it came from, and
\* the reply it took the utterance for
Processed(executed, tagged, source, reply) ==
    [executed |-> executed, tagged |-> tagged, source |-> source, reply |-> reply]

NoProcess == Processed(<<>>, FALSE, "", "")

NoEntries == [p \in {} |-> [source |-> ""]]

InitLearn ==
    /\ phrases = NoEntries
    /\ sequence_phrases = NoEntries
    /\ pending_confirmation = NoPending
    /\ process_result = NoProcess
    /\ silent_learning \in BOOLEAN

\* PhraseBank.add_phrase: nothing is written when the phrase is already there
add_phrase(bank, phrase, source, confidence, ok) ==
    IF phrase \in DOMAIN bank THEN bank
    ELSE (phrase :> [source |-> source, confidence |-> confidence, ok |-> ok]) @@ bank

\* PhraseBank.add_sequence_phrase: the entry is inserted or overwritten
add_sequence_phrase(bank, phrase, confidence, ok) ==
    [p \in DOMAIN bank \cup {phrase} |->
        IF p = phrase THEN [source |-> "sequence", confidence |-> confidence, ok |-> ok]
        ELSE bank[p]]

\* CommandProcessor.process, when the phrase bank has a match that needs confirmation
ProcessLowConfidenceMatch ==
    /\ ~pending_confirmation.pending
    /\ \E utterance \in PhraseTexts, confidence \in Confidences, intent \in Intents :
         pending_confirmation' = [pending |-> TRUE, original_utterance |-> utterance,
                                  suggested_intent |-> intent,
                                  phrase_to_save |-> "", confidence |-> confidence]
    /\ process_result' = Processed(<<>>, TRUE, "phrase_bank", "")
    /\ UNCHANGED <<phrases, sequence_phrases, silent_learning>>

NeverAsks(needs_confirm, silent) == FALSE

\* "if needs_confirm and not SILENT_LEARNING"
AsksConfirmation(needs_confirm, silent) == needs_confirm /\ ~silent

\* CommandProcessor._try_llm_interpretation
TryLlmInterpretation ==
    /\ ~pending_confirmation.pending
    /\ \E utterance \in PhraseTexts, understood \in BOOLEAN, confidence \in Confidences,
          needs_confirm \in BOOLEAN, saves \in BOOLEAN, ok \in BOOLEAN, intent \in Intents :
         LET phrase_to_save == IF saves THEN utterance ELSE ""
         IN
         IF ~understood
         THEN /\ process_result' = Processed(<<>>, FALSE, "llm", "")
              /\ UNCHANGED <<phrases, pending_confirmation>>
         ELSE IF AsksConfirmation(needs_confirm, silent_learning)
         THEN /\ pending_confirmation' =
                    [pending |-> TRUE, original_utterance |-> utterance,
                     suggested_intent |-> intent,
                     phrase_to_save |-> phrase_to_save, confidence |-> confidence]
              /\ process_result' = Processed(<<>>, needs_confirm, "llm", "")
              /\ UNCHANGED phrases
         ELSE /\ phrases' = IF phrase_to_save # ""
                            THEN add_phrase(phrases, phrase_to_save, "llm_learned",
                                            confidence, ok)
                            ELSE phrases
              /\ process_result' = Processed(<<intent>>, needs_confirm, "llm", "")
              /\ UNCHANGED pending_confirmation
    /\ UNCHANGED <<sequence_phrases, silent_learning>>

\* CommandProcessor._handle_confirmation
HandleConfirmation ==
    /\ pending_confirmation.pending
    /\ \E response \in {"yes", "no", "maybe"}, ok \in BOOLEAN :
         LET pending == pending_confirmation
             phrase_to_save == IF pending.phrase_to_save # "" THEN pending.phrase_to_save
                               ELSE pending.original_utterance
         IN  CASE response = "yes" ->
                    /\ phrases' = add_phrase(phrases, phrase_to_save, "confirmed_learned",
                                             pending.confidence, ok)
                    /\ pending_confirmation' = NoPending
                    /\ process_result' =
                           Processed(<<pending.suggested_intent>>, FALSE, "", response)
               [] response = "no" ->
                    /\ pending_confirmation' = NoPending
                    /\ process_result' = Processed(<<>>, FALSE, "", response)
                    /\ UNCHANGED phrases
               [] OTHER ->
                    /\ process_result' = Processed(<<>>, FALSE, "", response)
                    /\ UNCHANGED <<phrases, pending_confirmation>>
    /\ UNCHANGED <<sequence_phrases, silent_learning>>

\* "if success and seq_result.get('confidence', 0) >= LLM_CONFIDENCE_THRESHOLD"
LearnGate(success, confidence) == success /\ confidence >= LLM_CONFIDENCE_THRESHOLD

\* try_learning_system, Tier 3, and try_sequence_interpreter, Tier 1: the
\* sequence interpreter's result is compiled, executed and perhaps learned;
\* `compiled`: there was a result and its plan has steps
TrySequenceInterpreter ==
    /\ \E text \in SequenceTexts, confidence \in Confidences, compiled \in BOOLEAN,
          success \in BOOLEAN, is_creative \in BOOLEAN :
         sequence_phrases' =
             IF confidence >= 70 /\ compiled /\ LearnGate(success, confidence) /\ ~is_creative
             THEN add_sequence_phrase(sequence_phrases, text, confidence, success)
             ELSE sequence_phrases
    /\ UNCHANGED <<phrases, pending_confirmation, process_result, silent_learning>>

\* cli_control._run_sequence_command, when the cache has no entry for the
\* text; `has_sequence`: there was a result and its sequence is not empty
RunSequenceCommand ==
    /\ \E text \in SequenceTexts, confidence \in Confidences, has_sequence \in BOOLEAN,
          confirm \in {"y", "n"}, all_ok \in BOOLEAN, composite \in BOOLEAN,
          is_creative \in BOOLEAN :
         sequence_phrases' =
             IF has_sequence /\ (confidence >= 60 \/ confirm = "y")
                /\ composite /\ confidence >= 80 /\ ~is_creative
             THEN add_sequence_phrase(sequence_phrases, text, confidence, all_ok)
             ELSE sequence_phrases
    /\ UNCHANGED <<phrases, pending_confirmation, process_result, silent_learning>>

(***************************************************************************)
(* SequenceInterpreter.interpret.  What the language model answers in each *)
(* pass is an input: the call fails, or it returns text that is not JSON,  *)
(* JSON that is not an object, or an object.  A step of a sequence is an   *)
(* object naming an instruction, or (is_dict FALSE) some other JSON value. *)
(* interpret ends by returning None, returning its result, or raising.     *)
(***************************************************************************)
\* compiler.get_instruction_list_for_prompt(): the registry's instruction names
ValidInstructions == {"move_to", "go_home", "add_layer", "pick_up"}

\* scene_context["recipes"], by their layers
Recipes == { <<"bread", "cheese">> }

VoiceCommands == {"", "make a blt", "surprise me"}

\* _is_creative
is_creative(command) == command = "surprise me"

SeqStep(instruction, item) == [is_dict |-> TRUE, instruction |-> instruction, item |-> item]

NotADict == [is_dict |-> FALSE, instruction |-> "", item |-> ""]

Pass1Sequences ==
    { <<>>,
      << SeqStep("go_home", "") >>,
      << SeqStep("move_absolute", "") >>,
      << SeqStep("add_layer", "bread"), SeqStep("add_layer", "cheese") >>,
      << SeqStep("add_layer", "avocado") >>,
      << NotADict >> }

FixedSequences ==
    { <<>>, << SeqStep("go_home", "") >>, << SeqStep("move_absolute", "") >> }

\* What messages.create and _parse_json_response can give in Pass 1
Pass1Answers ==
    [kind : {"error"}, err : {"rate limit", "timeout", "boom"}]
    \cup [kind : {"text", "list"}]
    \cup [kind : {"dict"}, sequence : Pass1Sequences, confidence : {50, 90}]

Pass2Answers ==
    [kind : {"error", "text", "dict_without_sequence"}]
    \cup [kind : {"dict"}, sequence : FixedSequences, valid : BOOLEAN,
          issues : { <<>>, <<"unknown instruction: move_absolute">>,
                     <<"parse error in step 1">> }]

Pass3Answers ==
    [kind : {"error", "text"}]
    \cup [kind : {"dict"}, sequence : FixedSequences, confidence : {50, 90}]

\* The result of the except branch of Pass 1
ApiFailure(err, creative) ==
    LET user_fb == CASE err = "rate limit" ->
                          "API rate limit or overloaded - try again in a moment"
                     [] err = "timeout" ->
                          "API call timed out - check connection or try again"
                     [] OTHER -> "API error: boom"
    IN  [interpretation |-> user_fb, sequence |-> <<>>, pass1_sequence |-> <<>>,
         confidence |-> 0, validated |-> FALSE, validation_issues |-> <<>>,
         user_feedback |-> user_fb, is_creative |-> creative]

\* The result returned when Pass 1 gave no JSON
ParseFailure(creative) ==
    [interpretation |-> "raw text", sequence |-> <<>>, pass1_sequence |-> <<>>,
     confidence |-> 0, validated |-> FALSE,
     validation_issues |-> <<"Pass 1 returned non-JSON response">>,
     user_feedback |-> None, is_creative |-> creative]

\* _python_issues(seq), as the set of its issues
python_issues(seq) ==
    { "unknown instruction" : i \in {k \in 1..Len(seq) :
                                        seq[k].instruction # ""
                                        /\ seq[k].instruction \notin ValidInstructions} }
    \cup
    { "unknown item" : i \in {k \in 1..Len(seq) :
                                 seq[k].instruction = "add_layer"
                                 /\ seq[k].item # "" /\ seq[k].item \notin Items} }

RECURSIVE LayersOf(_)
LayersOf(seq) ==
    IF seq = <<>> THEN <<>>
    ELSE (IF Head(seq).instruction = "add_layer" THEN <<Head(seq).item>> ELSE <<>>)
         \o LayersOf(Tail(seq))

\* _matches_known_recipe
matches_known_recipe(seq) == LayersOf(seq) \in Recipes

skip_without_name_check(result, creative) ==
    \/ creative
    \/ result.confidence >= 88
    \/ matches_known_recipe(result.sequence)
    \/ result.sequence = <<>>

\* _skip_pass2
skip_pass2(result, creative) ==
    /\ python_issues(result.sequence) = {}
    /\ \/ creative
       \/ result.confidence >= 88
       \/ matches_known_recipe(result.sequence)
       \/ result.sequence = <<>>

all_issues(issues) == issues

\* The issues Pass 3 retries for: neither "unparseable" nor "error" in them
RECURSIVE real_issues(_)
real_issues(issues) ==
    IF issues = <<>> THEN <<>>
    ELSE (IF Head(issues) \in {"Validator response unparseable", "Validation error: boom",
                               "parse error in step 1"}
          THEN <<>> ELSE <<Head(issues)>>) \o real_issues(Tail(issues))

\* Before interpret has a result
NoResult ==
    [interpretation |-> "", sequence |-> <<>>, pass1_sequence |-> <<>>, confidence |-> 0,
     validated |-> FALSE, validation_issues |-> <<>>, user_feedback |-> None,
     is_creative |-> FALSE]

InitInterp ==
    /\ interp_pc = "idle"
    /\ voice_command = ""
    /\ interp_result = NoResult
    /\ interp_outcome = "none"
    /\ passes = [calls |-> 0, pass2 |-> "no", pass3 |-> "no", failure |-> FALSE]

\* interpret(voice_command) up to the end of Pass 1 and the decision on Pass 2
InterpretPass1 ==
    /\ interp_pc = "idle"
    /\ interp_outcome = "none"
    /\ \E command \in VoiceCommands, answer \in Pass1Answers :
         LET creative == is_creative(command)
             result == [interpretation |-> "", sequence |-> answer.sequence,
                        pass1_sequence |-> answer.sequence,
                        confidence |-> answer.confidence,
                        validated |-> FALSE, validation_issues |-> <<>>,
                        user_feedback |-> None, is_creative |-> creative]
             skipped == [result EXCEPT !.validated = TRUE]
         IN  /\ voice_command' = command
             /\ IF command = ""
                THEN /\ interp_outcome' = "returned None"
                     /\ UNCHANGED <<interp_pc, interp_result, passes>>
                ELSE IF answer.kind = "error"
                THEN /\ interp_outcome' = "returned"
                     /\ interp_result' = ApiFailure(answer.err, creative)
                     /\ passes' = [passes EXCEPT !.calls = 1, !.failure = TRUE]
                     /\ UNCHANGED interp_pc
                ELSE IF answer.kind = "text"
                THEN /\ interp_outcome' = "returned"
                     /\ interp_result' = ParseFailure(creative)
                     /\ passes' = [passes EXCEPT !.calls = 1, !.failure = TRUE]
                     /\ UNCHANGED interp_pc
                ELSE IF answer.kind = "list"
                THEN /\ interp_outcome' = "raised"
                     /\ passes' = [passes EXCEPT !.calls = 1, !.failure = TRUE]
                     /\ UNCHANGED <<interp_pc, interp_result>>
                ELSE IF \E k \in 1..Len(answer.sequence) : ~answer.sequence[k].is_dict
                THEN /\ interp_outcome' = "raised"
                     /\ passes' = [passes EXCEPT !.calls = 1, !.failure = TRUE]
                     /\ UNCHANGED <<interp_pc, interp_result>>
                ELSE IF skip_pass2(result, creative) \/ result.sequence = <<>>
                THEN /\ interp_outcome' = "returned"
                     /\ interp_result' = skipped
                     /\ passes' = [passes EXCEPT !.calls = 1]
                     /\ UNCHANGED interp_pc
                ELSE /\ interp_pc' = "pass2"
                     /\ interp_result' = result
                     /\ passes' = [passes EXCEPT !.calls = 1]
                     /\ UNCHANGED interp_outcome

\* Pass 2, and the decision on Pass 3
InterpretPass2 ==
    /\ interp_pc = "pass2"
    /\ \E answer \in Pass2Answers :
         LET result ==
                 CASE answer.kind = "error" ->
                        [interp_result EXCEPT !.validated = FALSE,
                                              !.validation_issues =
                                                  <<"Validation error: boom">>]
                   [] answer.kind = "dict" ->
                        [interp_result EXCEPT !.sequence = answer.sequence,
                                              !.validated = answer.valid,
                                              !.validation_issues = answer.issues]
                   [] OTHER ->
                        [interp_result EXCEPT !.validated = FALSE,
                                              !.validation_issues =
                                                  <<"Validator response unparseable">>]
         IN  /\ interp_result' = result
             /\ passes' = [passes EXCEPT !.calls = 2,
                                         !.pass2 = IF answer.kind = "error" THEN "failed"
                                                   ELSE "ran"]
             /\ IF real_issues(result.validation_issues) # <<>>
                THEN interp_pc' = "pass3" /\ UNCHANGED interp_outcome
                ELSE interp_pc' = "idle" /\ interp_outcome' = "returned"
    /\ UNCHANGED voice_command

\* Pass 3, and the return
InterpretPass3 ==
    /\ interp_pc = "pass3"
    /\ \E answer \in Pass3Answers :
         /\ interp_result' =
                IF answer.kind = "dict"
                THEN [interp_result EXCEPT
                         !.sequence = answer.sequence,
                         !.confidence = answer.confidence,
                         !.validated = TRUE,
                         !.validation_issues = <<"[P3 fixed] unknown instruction">>]
                ELSE interp_result
         /\ passes' = [passes EXCEPT !.calls = 3,
                                     !.pass3 = IF answer.kind = "error" THEN "failed"
                                               ELSE "ran"]
    /\ interp_pc' = "idle"
    /\ interp_outcome' = "returned"
    /\ UNCHANGED voice_command

(***************************************************************************)
(* The instruction registry and the compiler (instruction_compiler.py).    *)
(* A string is a sequence of tokens, a placeholder "{key}" being one       *)
(* token; a parameter dictionary is the sequence of its items in insertion *)
(* order; a value is a string or an integer, kept with its text.           *)
(***************************************************************************)

\* The instructions the executor's primitive table dispatches: the primitives
\* of the instruction-set document
Primitives == {"move_to", "move_relative", "gripper_open", "gripper_close"}

CompositeNames == {"pick_up", "transfer", "make_snack"}

\* The deepest nesting of composites the registry is taken to
MaxNesting == 3

Str(text) == [type |-> "str", text |-> text]

Num(text) == [type |-> "int", text |-> text]

Item(key, value) == [key |-> key, value |-> value]

SeqItem(instruction, params) == [instruction |-> instruction, params |-> params]

\* f"{{{key}}}"
Placeholder(key) ==
    CASE key = "item" -> "{item}"
      [] key = "destination" -> "{destination}"
      [] OTHER -> "{location}"

\* str.replace(old, new), token by token
RECURSIVE Replace(_, _, _)
Replace(text, old, new) ==
    IF text = <<>> THEN <<>>
    ELSE (IF Head(text) = old THEN new ELSE <<Head(text)>>) \o Replace(Tail(text), old, new)

\* _substitute_params on a string: one replace per item of params, in order
RECURSIVE SubstituteStr(_, _, _)
SubstituteStr(result, params, k) ==
    IF k > Len(params) THEN result
    ELSE SubstituteStr(Replace(result, Placeholder(params[k].key), params[k].value.text),
                       params, k + 1)

\* _substitute_params on a dict of strings and numbers
substitute_params(template, params) ==
    [i \in 1..Len(template) |->
        Item(template[i].key,
             IF template[i].value.type = "str"
             THEN Str(SubstituteStr(template[i].value.text, params, 1))
             ELSE template[i].value)]

\* The sequences learn_composite and compile_sequence are called with
Templates ==
    { << SeqItem("move_to", <<Item("location", Str(<<"{item}", "_slot">>))>>),
         SeqItem("gripper_close", <<>>) >>,
      << SeqItem("move_to", <<Item("location", Str(<<"{destination}">>))>>),
         SeqItem("gripper_open", <<>>) >>,
      << SeqItem("pick_up", <<Item("item", Str(<<"{item}">>))>>),
         SeqItem("move_to", <<Item("location", Str(<<"{destination}">>))>>) >>,
      << SeqItem("pick_up", <<Item("item", Str(<<"{item}">>))>>) >>,
      << SeqItem("transfer", <<Item("item", Str(<<"{item}">>)),
                               Item("destination", Str(<<"assembly_zone">>))>>),
         SeqItem("move_relative", <<Item("direction", Str(<<"up">>)),
                                    Item("distance", Num(<<"5">>))>>) >>,
      << SeqItem("move_relative", <<Item("direction", Str(<<"up">>)),
                                    Item("distance", Str(<<"{item}">>))>>),
         SeqItem("transfer", <<Item("item", Str(<<"bread">>)),
                               Item("destination", Str(<<"{destination}">>))>>),
         SeqItem("gripper_open", <<>>) >>,
      << SeqItem("make_snack", <<Item("item", Str(<<"{item}">>))>>),
         SeqItem("gripper_open", <<>>) >>,
      << SeqItem("gripper_close", <<>>),
         SeqItem("fly", <<>>),
         SeqItem("move_to", <<Item("location", Str(<<"{item}", "_slot">>))>>) >> }

\* The params compile_instruction is called with
ParamDicts ==
    { <<>>,
      <<Item("item", Str(<<"cheese">>))>>,
      <<Item("item", Str(<<"tomato">>)), Item("destination", Str(<<"plate">>))>>,
      <<Item("item", Str(<<"{destination}">>)), Item("destination", Str(<<"plate">>))>>,
      <<Item("item", Num(<<"5">>))>> }

\* An entry of the registry; flags: the flags it is stored with as true
NotLearned == [defined |-> FALSE, sequence |-> <<>>, flags |-> {}]

NoComposites == [name \in CompositeNames |-> NotLearned]

\* get_composites: {**composites, **learned}
get_composites(set) ==
    [name \in CompositeNames |->
        IF set.learned_composites[name].defined THEN set.learned_composites[name]
        ELSE set.composites[name]]

\* get_instruction: the type of the instruction, or "none"
get_instruction(set, name) ==
    IF name \in Primitives THEN "primitive"
    ELSE IF name \in CompositeNames /\ get_composites(set)[name].defined THEN "composite"
    ELSE "none"

\* Whether the expansion of name ends within fuel levels of composites
RECURSIVE Nests(_, _, _)
Nests(set, name, fuel) ==
    IF get_instruction(set, name) # "composite" THEN TRUE
    ELSE /\ fuel > 0
         /\ \A k \in 1..Len(get_composites(set)[name].sequence) :
                Nests(set, get_composites(set)[name].sequence[k].instruction, fuel - 1)

WellNested(set) == \A name \in CompositeNames : Nests(set, name, MaxNesting)

\* ExecutionStep(instruction=name, params={}, is_primitive=True)
ExecutionStepWithoutParams(instruction, params) ==
    [instruction |-> instruction, params |-> <<>>, is_primitive |-> TRUE]

ExecutionStep(instruction, params) ==
    [instruction |-> instruction, params |-> params, is_primitive |-> TRUE]

NoPlan == [ok |-> FALSE, steps |-> <<>>, composite_name |-> ""]

ExecutionPlan(steps, composite_name) ==
    [ok |-> TRUE, steps |-> steps, composite_name |-> composite_name]

\* all_steps.extend(sub_plan.steps), with the operands exchanged
ExtendFront(all_steps, steps) == steps \o all_steps

\* all_steps.extend(sub_plan.steps)
Extend(all_steps, steps) == all_steps \o steps

\* "if sub_plan:" is false, and what was expanded so far is dropped
Aborted(all_steps) == <<>>

\* "if sub_plan:" is false: the item contributes nothing
Skipped(all_steps) == all_steps

RECURSIVE compile_instruction(_, _, _)
RECURSIVE ExpandLoop(_, _, _, _, _)

\* The loop of compile_instruction over a composite's sequence, from item k
ExpandLoop(set, sequence, k, all_steps, params) ==
    IF k > Len(sequence) THEN all_steps
    ELSE LET seq_item == sequence[k]
             sub_params == substitute_params(seq_item.params, params)
             sub_plan == compile_instruction(set, seq_item.instruction, sub_params)
         IN  ExpandLoop(set, sequence, k + 1,
                        IF sub_plan.ok THEN Extend(all_steps, sub_plan.steps)
                        ELSE Skipped(all_steps),
                        params)

compile_instruction(set, name, params) ==
    CASE get_instruction(set, name) = "none" -> NoPlan
      [] get_instruction(set, name) = "primitive" ->
            ExecutionPlan(<<ExecutionStep(name, params)>>, "")
      [] OTHER ->
            ExecutionPlan(ExpandLoop(set, get_composites(set)[name].sequence, 1, <<>>, params),
                          name)

\* The loop of compile_sequence, from item k
RECURSIVE SequenceLoop(_, _, _, _)
SequenceLoop(set, instructions, k, all_steps) ==
    IF k > Len(instructions) THEN all_steps
    ELSE LET sub_plan == compile_instruction(set, instructions[k].instruction,
                                             instructions[k].params)
         IN  SequenceLoop(set, instructions, k + 1,
                          IF sub_plan.ok THEN Extend(all_steps, sub_plan.steps)
                          ELSE Skipped(all_steps))

compile_sequence(set, instructions) ==
    ExecutionPlan(SequenceLoop(set, instructions, 1, <<>>), "")

NoCall ==
    [kind |-> "none", name |-> "", params |-> <<>>, instructions |-> <<>>, plan |-> NoPlan]

NoLearn == [name |-> "", sequence |-> <<>>]

InitCompile ==
    /\ instruction_set = [composites |-> NoComposites, learned_composites |-> NoComposites]
    /\ instruction_file = instruction_set
    /\ learn_call = NoLearn
    /\ learn_result = "none"
    /\ compile_call = NoCall

\* The check of learn_composite, of the first step only
FirstKnown(set, sequence) == get_instruction(set, sequence[1].instruction) # "none"

\* The check of learn_composite: all referenced instructions exist
AllKnown(set, sequence) ==
    \A k \in 1..Len(sequence) : get_instruction(set, sequence[k].instruction) # "none"

\* learn_composite(name, ..., sequence, ...), with save_instruction_set; the
\* plan of an earlier compilation is discarded
LearnCompositeCall(name, sequence) ==
    LET learned == [instruction_set EXCEPT !.composites[name] =
                        [defined |-> TRUE, sequence |-> sequence, flags |-> {"learned"}]]
    IN  /\ AllKnown(instruction_set, sequence) => WellNested(learned)
        /\ learn_call' = [name |-> name, sequence |-> sequence]
        /\ compile_call' = NoCall
        /\ IF AllKnown(instruction_set, sequence)
           THEN /\ instruction_set' = learned
                /\ instruction_file' = learned
                /\ learn_result' = "True"
           ELSE /\ learn_result' = "False"
                /\ UNCHANGED <<instruction_set, instruction_file>>

LearnComposite ==
    \E name \in CompositeNames, sequence \in Templates : LearnCompositeCall(name, sequence)

\* The composite names and sequences MemoryWriter.process is called with
MemoryNames == {"pick_up"}

MemorySequences ==
    { << SeqItem("move_to", <<Item("location", Str(<<"{item}", "_slot">>))>>),
         SeqItem("gripper_close", <<>>) >>,
      << SeqItem("gripper_close", <<>>),
         SeqItem("fly", <<>>),
         SeqItem("move_to", <<Item("location", Str(<<"{item}", "_slot">>))>>) >> }

\* MemoryWriter.process(result): the composite goes to learned_composites of
\* the document; `flagged`: user_feedback speaks of a mapping or composite
MemoryWriterProcess ==
    \E composite_name \in MemoryNames \cup {""}, sequence \in MemorySequences,
       flagged \in BOOLEAN :
        LET iset == IF composite_name = "" \/ ~flagged THEN instruction_file
                    ELSE [instruction_file EXCEPT !.learned_composites[composite_name] =
                              [defined |-> TRUE, sequence |-> sequence,
                               flags |-> {"learned", "llm_visible"}]]
        IN  /\ WellNested(iset)
            /\ instruction_file' = iset
            /\ UNCHANGED <<instruction_set, learn_call, learn_result, compile_call>>

\* InstructionCompiler.__init__ at the start of a process: _load_instruction_set
LoadInstructionSet ==
    /\ instruction_set' = instruction_file
    /\ learn_call' = NoLearn
    /\ learn_result' = "none"
    /\ compile_call' = NoCall
    /\ UNCHANGED instruction_file

\* compile_instruction(name, params); the result of an earlier learn_composite
\* is discarded
CompileInstruction ==
    \E name \in Primitives \cup CompositeNames \cup {"fly"}, params \in ParamDicts :
        /\ compile_call' = [kind |-> "instruction", name |-> name, params |-> params,
                            instructions |-> <<>>,
                            plan |-> compile_instruction(instruction_set, name, params)]
        /\ learn_call' = NoLearn
        /\ learn_result' = "none"
        /\ UNCHANGED <<instruction_set, instruction_file>>

\* compile_sequence(instructions)
CompileSequence ==
    \E instructions \in Templates :
        /\ compile_call' = [kind |-> "sequence", name |-> "", params |-> <<>>,
                            instructions |-> instructions,
                            plan |-> compile_sequence(instruction_set, instructions)]
        /\ learn_call' = NoLearn
        /\ learn_result' = "none"
        /\ UNCHANGED <<instruction_set, instruction_file>>

(***************************************************************************)
(* compile_instruction, call by call.  call_stack holds the frames of the  *)
(* calls that have not returned, the outermost first: the name and params  *)
(* of the call, the item k of the sequence its loop is at, and all_steps.  *)
(* MaxDepth frames is as deep as the stack is followed.                    *)
(***************************************************************************)
recursionVars == <<call_stack>>

MaxDepth == 5

InitRecursion == call_stack = <<>>

\* The sequences learn_composite is called with after a first learning
References ==
    { << SeqItem("gripper_close", <<>>) >>,
      << SeqItem("pick_up", <<Item("item", Str(<<"{item}">>))>>) >>,
      << SeqItem("gripper_open", <<>>), SeqItem("transfer", <<>>) >>,
      << SeqItem("make_snack", <<>>), SeqItem("gripper_close", <<>>) >>,
      << SeqItem("fly", <<>>) >> }

\* learn_composite(name, ..., sequence, ...) between two compilations, the
\* name being new or known
LearnReference ==
    \E name \in CompositeNames, sequence \in References :
        LET learned == [instruction_set EXCEPT !.composites[name] =
                            [defined |-> TRUE, sequence |-> sequence, flags |-> {"learned"}]]
        IN  /\ call_stack = <<>>
            /\ learn_call' = [name |-> name, sequence |-> sequence]
            /\ compile_call' = NoCall
            /\ IF AllKnown(instruction_set, sequence)
               THEN /\ instruction_set' = learned
                    /\ instruction_file' = learned
                    /\ learn_result' = "True"
               ELSE /\ learn_result' = "False"
                    /\ UNCHANGED <<instruction_set, instruction_file>>
            /\ UNCHANGED call_stack

Frame(name, params) == [name |-> name, params |-> params, k |-> 1, all_steps |-> <<>>]

Returned(name, params, sub_plan) ==
    [kind |-> "instruction", name |-> name, params |-> params, instructions |-> <<>>,
     plan |-> sub_plan]

\* compile_instruction(name, params) is called: no instruction or a primitive
\* returns at once, a composite starts its loop
CompileCall ==
    \E name \in CompositeNames \cup {"gripper_close", "fly"},
       params \in {<<>>, <<Item("item", Str(<<"cheese">>))>>} :
        /\ call_stack = <<>>
        /\ learn_call' = NoLearn
        /\ learn_result' = "none"
        /\ CASE get_instruction(instruction_set, name) = "none" ->
                   /\ compile_call' = Returned(name, params, NoPlan)
                   /\ UNCHANGED call_stack
             [] get_instruction(instruction_set, name) = "primitive" ->
                   /\ compile_call' = Returned(name, params,
                                          ExecutionPlan(<<ExecutionStep(name, params)>>, ""))
                   /\ UNCHANGED call_stack
             [] OTHER ->
                   /\ compile_call' = NoCall
                   /\ call_stack' = <<Frame(name, params)>>
        /\ UNCHANGED <<instruction_set, instruction_file>>

\* The loop goes to its next item
Advance(stack, all_steps) ==
    [stack EXCEPT ![Len(stack)].k = @ + 1, ![Len(stack)].all_steps = all_steps]

\* A guard the code does not have: a composite that is being compiled is skipped
DescendOnce(stack, name, params) ==
    IF \E i \in 1..Len(stack) : stack[i].name = name
    THEN Advance(stack, stack[Len(stack)].all_steps)
    ELSE Append(stack, Frame(name, params))

\* "sub_plan = self.compile_instruction(sub_instruction, sub_params)" for a composite
Descend(stack, name, params) == Append(stack, Frame(name, params))

\* One step of the innermost call of compile_instruction: its loop takes an
\* item, or is over and the call returns its plan to the loop of its caller
CompileStep ==
    /\ call_stack # <<>>
    /\ LET top == call_stack[Len(call_stack)]
           sequence == get_composites(instruction_set)[top.name].sequence
           seq_item == sequence[top.k]
           sub_params == substitute_params(seq_item.params, top.params)
           sub_plan == ExecutionPlan(top.all_steps, top.name)
           callers == SubSeq(call_stack, 1, Len(call_stack) - 1)
       IN  IF top.k > Len(sequence)
           THEN IF callers = <<>>
                THEN /\ call_stack' = <<>>
                     /\ compile_call' = Returned(top.name, top.params, sub_plan)
                ELSE /\ call_stack' =
                           Advance(callers,
                                   Extend(callers[Len(callers)].all_steps, sub_plan.steps))
                     /\ UNCHANGED compile_call
           ELSE /\ UNCHANGED compile_call
                /\ CASE get_instruction(instruction_set, seq_item.instruction) = "none" ->
                           call_stack' = Advance(call_stack, Skipped(top.all_steps))
                     [] get_instruction(instruction_set, seq_item.instruction) = "primitive" ->
                           call_stack' =
                               Advance(call_stack,
                                       Extend(top.all_steps,
                                              <<ExecutionStep(seq_item.instruction, sub_params)>>))
                     [] OTHER ->
                           /\ Len(call_stack) < MaxDepth
                           /\ call_stack' = Descend(call_stack, seq_item.instruction, sub_params)
    /\ UNCHANGED <<instruction_set, instruction_file, learn_call, learn_result>>


(***************************************************************************)
(* The phrase bank.  A text is a sequence of characters.  A distance is in *)
(* millimetres, so the 1.0 cm of a plain movement is 10.  A similarity is  *)
(* the fraction num/den.  data["phrases"] is a dict in insertion order: a  *)
(* sequence of entries, each with its key; "given" and "learned" are       *)
(* history, the text and the result add_phrase was called with.  The texts *)
(* that are looked up have no decimal point and no upper-case letters      *)
(* other than G, U and P.                                                  *)
(***************************************************************************)
bankVars == <<phrase_bank, bank_call>>

Digits == <<"0", "1", "2", "3", "4", "5", "6", "7", "8", "9">>

IsDigit(c) == \E n \in 1..10 : Digits[n] = c

DigitValue(c) == (CHOOSE n \in 1..10 : Digits[n] = c) - 1

\* str.lower
Lower(text) ==
    [i \in 1..Len(text) |->
        CASE text[i] = "G" -> "g" [] text[i] = "U" -> "u" [] text[i] = "P" -> "p"
          [] OTHER -> text[i]]

RECURSIVE LStrip(_)
LStrip(text) ==
    IF text # <<>> /\ Head(text) = " " THEN LStrip(Tail(text)) ELSE text

RECURSIVE RStrip(_)
RStrip(text) ==
    IF text # <<>> /\ text[Len(text)] = " " THEN RStrip(SubSeq(text, 1, Len(text) - 1))
    ELSE text

\* str.strip
Strip(text) == RStrip(LStrip(text))

\* re.sub(r'[^\w\s\-]', '', text), for the punctuation of the texts
RECURSIVE RemovePunctuation(_)
RemovePunctuation(text) ==
    IF text = <<>> THEN <<>>
    ELSE IF Head(text) \in {"!", "?", ".", ","} THEN RemovePunctuation(Tail(text))
    ELSE <<Head(text)>> \o RemovePunctuation(Tail(text))

\* re.sub(r'\s+', ' ', text)
RECURSIVE CollapseSpaces(_)
CollapseSpaces(text) ==
    IF text = <<>> THEN <<>>
    ELSE IF Len(text) >= 2 /\ text[1] = " " /\ text[2] = " " THEN CollapseSpaces(Tail(text))
    ELSE <<Head(text)>> \o CollapseSpaces(Tail(text))

\* PhraseBank.normalize
normalize(text) == CollapseSpaces(RemovePunctuation(Strip(Lower(text))))

\* The units of the pattern of extract_distance, in the order it tries them
UnitWords == << <<"c", "e", "n", "t", "i", "m", "e", "t", "e", "r", "s">>, <<"c", "e", "n", "t", "i", "m", "e", "t", "e", "r">>,
                <<"c", "m">>,
                <<"m", "i", "l", "l", "i", "m", "e", "t", "e", "r", "s">>, <<"m", "i", "l", "l", "i", "m", "e", "t", "e", "r">>, <<"m", "m">> >>

RECURSIVE DropDigits(_)
DropDigits(text) ==
    IF text # <<>> /\ IsDigit(Head(text)) THEN DropDigits(Tail(text)) ELSE text

DropUnit(text) ==
    IF \E u \in 1..Len(UnitWords) : StartsWith(text, UnitWords[u])
    THEN LET u == CHOOSE u \in 1..Len(UnitWords) :
                     /\ StartsWith(text, UnitWords[u])
                     /\ \A v \in 1..(u - 1) : ~StartsWith(text, UnitWords[v])
         IN  SubSeq(text, Len(UnitWords[u]) + 1, Len(text))
    ELSE text

\* re.sub(pattern, '', text_lower): every number goes, with the blanks and
\* the unit after it
RECURSIVE RemoveDistances(_)
RemoveDistances(text) ==
    IF text = <<>> THEN <<>>
    ELSE IF IsDigit(Head(text)) THEN RemoveDistances(DropUnit(LStrip(DropDigits(text))))
    ELSE <<Head(text)>> \o RemoveDistances(Tail(text))

\* float(match.group(1)) of the first number of the text
RECURSIVE NumberAt(_, _)
NumberAt(text, value) ==
    IF text # <<>> /\ IsDigit(Head(text))
    THEN NumberAt(Tail(text), 10 * value + DigitValue(Head(text)))
    ELSE value

\* PhraseBank.extract_distance; found is "distance is not None"
extract_distance(text) ==
    LET text_lower == Lower(text)
        start == CHOOSE i \in 1..Len(text_lower) :
                     /\ IsDigit(text_lower[i])
                     /\ \A j \in 1..(i - 1) : ~IsDigit(text_lower[j])
        number == NumberAt(SubSeq(text_lower, start, Len(text_lower)), 0)
    IN  IF \E i \in 1..Len(text_lower) : IsDigit(text_lower[i])
        THEN [text |-> CollapseSpaces(Strip(RemoveDistances(text_lower))),
              found |-> TRUE,
              distance |-> IF Contains(text_lower, <<"m", "i", "l", "l", "i", "m", "e", "t", "e", "r">>)
                              \/ Contains(text_lower, <<"m", "m">>)
                           THEN number ELSE 10 * number]
        ELSE [text |-> text_lower, found |-> FALSE, distance |-> 0]

\* The number of characters a[i..] and b[j..] have in common at their start
RECURSIVE CommonRun(_, _, _, _)
CommonRun(a, b, i, j) ==
    IF i <= Len(a) /\ j <= Len(b) /\ a[i] = b[j] THEN 1 + CommonRun(a, b, i + 1, j + 1)
    ELSE 0

\* SequenceMatcher.find_longest_match: the longest block, the earliest in a,
\* and of those the earliest in b
LongestMatch(a, b) ==
    LET blocks == { [i |-> i, j |-> j, size |-> CommonRun(a, b, i, j)] :
                       i \in 1..Len(a), j \in 1..Len(b) }
    IN  CHOOSE m \in blocks :
            \A o \in blocks :
                \/ o.size < m.size
                \/ o.size = m.size /\ o.i > m.i
                \/ o.size = m.size /\ o.i = m.i /\ o.j >= m.j

\* The total size of SequenceMatcher.get_matching_blocks
RECURSIVE Matches(_, _)
Matches(a, b) ==
    IF a = <<>> \/ b = <<>> THEN 0
    ELSE LET m == LongestMatch(a, b)
         IN  IF m.size = 0 THEN 0
             ELSE m.size
                  + Matches(SubSeq(a, 1, m.i - 1), SubSeq(b, 1, m.j - 1))
                  + Matches(SubSeq(a, m.i + m.size, Len(a)), SubSeq(b, m.j + m.size, Len(b)))

\* PhraseBank.similarity: SequenceMatcher(None, a, b).ratio()
similarity(a, b) ==
    IF Len(a) + Len(b) = 0 THEN [num |-> 1, den |-> 1]
    ELSE [num |-> 2 * Matches(a, b), den |-> Len(a) + Len(b)]

Greater(score, other) == score.num * other.den > other.num * score.den

AtLeast(score, percent) == score.num * 100 >= percent * score.den

\* config.FUZZY_MATCH_THRESHOLD, in percent
FUZZY_MATCH_THRESHOLD == 60

\* config.FUZZY_CONFIRM_THRESHOLD, in percent
FUZZY_CONFIRM_THRESHOLD == 50

\* config.ENABLE_FUZZY_MATCHING
ENABLE_FUZZY_MATCHING == TRUE

NeverConfident(score) == FALSE

\* "if best_score >= FUZZY_MATCH_THRESHOLD"
Confident(score) == AtLeast(score, FUZZY_MATCH_THRESHOLD)

\* "elif best_score >= FUZZY_CONFIRM_THRESHOLD"
Confirmable(score) == AtLeast(score, FUZZY_CONFIRM_THRESHOLD)

NeverOverrides(extracted, parameters) == FALSE

\* 'if extracted_distance is not None and "direction" in result.get("parameters", {})'
Overrides(extracted, parameters) ==
    extracted.found /\ "direction" \in DOMAIN parameters

\* The index of the entry of that key, 0 when there is none
IndexOf(data, phrase) ==
    IF \E i \in 1..Len(data) : data[i].phrase = phrase
    THEN CHOOSE i \in 1..Len(data) : data[i].phrase = phrase
    ELSE 0

\* The for loop of lookup over data["phrases"].items(), from entry i on
RECURSIVE BestMatch(_, _, _, _)
BestMatch(data, normalized, i, best) ==
    IF i > Len(data) THEN best
    ELSE LET score == similarity(normalized, data[i].phrase)
         IN  BestMatch(data, normalized, i + 1,
                       IF Greater(score, best.score) THEN [score |-> score, index |-> i]
                       ELSE best)

NoMatch == [intent |-> None]

\* "result = ....copy()" and "result['parameters']['distance'] = extracted_distance":
\* the copy is shallow, so the entry's own parameters get the distance too
Found(data, i, extracted, confidence, needs_confirmation) ==
    LET parameters ==
            IF Overrides(extracted, data[i].parameters)
            THEN [k \in DOMAIN data[i].parameters \cup {"distance"} |->
                     IF k = "distance" THEN extracted.distance ELSE data[i].parameters[k]]
            ELSE data[i].parameters
    IN  [result |-> [intent |-> data[i].intent, parameters |-> parameters],
         confidence |-> confidence, needs_confirmation |-> needs_confirmation,
         index |-> i,
         data |-> [data EXCEPT ![i].parameters = parameters]]

\* PhraseBank.lookup
lookup(data, utterance) ==
    LET extracted == extract_distance(utterance)
        normalized == normalize(extracted.text)
        exact == IndexOf(data, normalized)
        best == BestMatch(data, normalized, 1,
                          [score |-> [num |-> 0, den |-> 1], index |-> 0])
        miss == [result |-> NoMatch, confidence |-> [num |-> 0, den |-> 1],
                 needs_confirmation |-> FALSE, index |-> 0, data |-> data]
    IN  IF exact # 0
        THEN Found(data, exact, extracted, [num |-> 1, den |-> 1], FALSE)
        ELSE IF ~ENABLE_FUZZY_MATCHING THEN miss
        ELSE IF Confident(best.score)
        THEN Found(data, best.index, extracted, best.score, FALSE)
        ELSE IF Confirmable(best.score)
        THEN Found(data, best.index, extracted, best.score, TRUE)
        ELSE miss

MaxPhrases == 2

\* What the learning path calls add_phrase with: a phrase, an intent and its parameters
Up(distance) == [intent |-> "move_relative",
                 parameters |-> [direction |-> "up", distance |-> distance]]

MoveTo(location) == [intent |-> "move_to_named", parameters |-> [location_name |-> location]]

Learnable ==
    { [phrase |-> <<"g", "o", " ", "u", "p">>, result |-> Up(10)],
      [phrase |-> <<"g", "o", " ", "u", "p">>, result |-> Up(30)],
      [phrase |-> <<"G", "o", " ", "u", "p", "!">>, result |-> Up(20)],
      [phrase |-> <<"g", "o", " ", "u", "p", " ", "5">>, result |-> Up(50)],
      [phrase |-> <<"p", "l", "a", "t", "e", " ", "1">>, result |-> MoveTo("plate_1")],
      [phrase |-> <<"p", "l", "a", "t", "e", " ", "2">>, result |-> MoveTo("plate_2")] }

\* What is said to lookup
LookedUp ==
    { <<"g", "o", " ", "u", "p">>, <<"G", "o", " ", "u", "p", "!">>,
      <<"g", "o", " ", "u", "p", " ", "5">>, <<"g", "o", " ", "u", "p", " ", "5", " ", "m", "m">>,
      <<"g", "o", " ", "u", "p", " ", "7", "c", "m">>, <<"g", "o", " ", "o", "n">>, <<"u", "p">>, <<"s", "t", "o", "p">>,
      <<"p", "l", "a", "t", "e", " ", "1">>, <<"u", "p", " ", "3">> }

InitBank ==
    /\ phrase_bank = <<>>
    /\ bank_call = [op |-> "none"]

PutEntry(data, entry) ==
    IF IndexOf(data, entry.phrase) # 0
    THEN [data EXCEPT ![IndexOf(data, entry.phrase)] = entry]
    ELSE Append(data, entry)

\* "if normalized in self.data['phrases']: return False", else the entry is stored
AddEntry(data, entry) ==
    IF IndexOf(data, entry.phrase) # 0 THEN data ELSE Append(data, entry)

\* PhraseBank.add_phrase(phrase, intent, parameters)
BankAddPhrase ==
    \E call \in Learnable :
        LET normalized == normalize(call.phrase)
            exists == IndexOf(phrase_bank, normalized) # 0
        IN  /\ exists \/ Len(phrase_bank) < MaxPhrases
            /\ phrase_bank' = AddEntry(phrase_bank,
                                       [phrase |-> normalized,
                                        intent |-> call.result.intent,
                                        parameters |-> call.result.parameters,
                                        given |-> call.phrase,
                                        learned |-> call.result])
            /\ bank_call' = [op |-> "add_phrase", phrase |-> call.phrase,
                             result |-> call.result, returned |-> ~exists]

\* PhraseBank.lookup(utterance)
BankLookup ==
    \E utterance \in LookedUp :
        LET r == lookup(phrase_bank, utterance)
        IN  /\ phrase_bank' = r.data
            /\ bank_call' = [op |-> "lookup", utterance |-> utterance,
                             result |-> r.result, confidence |-> r.confidence,
                             needs_confirmation |-> r.needs_confirmation,
                             index |-> r.index, before |-> phrase_bank]

(***************************************************************************)
(* IntentExecutor (learning/intent_executor.py)                            *)
(*                                                                         *)
(* Positions are on the x axis and in centimetres (DISTANCE_SCALE is left  *)
(* out); the handlers of the named locations are left out, they read the   *)
(* phrase bank's document.  A compound command is executed step by step.   *)
(***************************************************************************)
\* self.max_history is 50; a smaller history makes the pop(0) happen
max_history == 3

\* The calls of execute that are explored
MaxCalls == 4

\* The steps of a compound command that are explored
MaxSteps == 2

\* direction_deltas, x axis only; "diagonal" is no direction
ExecutorDirections == {"right", "left"}

direction_deltas(direction) == IF direction = "right" THEN 1 ELSE -1

Objects == {"cup"}

\* handler_map, without the handlers of the named locations
Handled == {"move_relative", "move_to_previous", "gripper_open", "gripper_close",
            "emergency_stop", "resume", "compound_command", "pick_object", "place_object"}

\* phrase_bank.is_intent_implemented(intent): the intents of the handlers are in
\* the phrase bank's document, "dance" is a name get_intent_info does not know
is_intent_implemented(intent_name) == intent_name \in Handled

\* execute(intent, parameters): the arguments explored
Call(intent, direction) == [intent |-> intent, direction |-> direction, object_name |-> "cup"]

Calls ==
    {Call("move_relative", d) : d \in ExecutorDirections \cup {"diagonal"}}
        \cup {Call(i, "") : i \in (Handled \ {"move_relative", "compound_command"}) \cup {"dance"}}

Sequences(n) == UNION {[1..k -> Calls] : k \in 0..n}

\* __init__
NewExecutor ==
    [current_position |-> 0, position_history |-> <<0>>, gripper_state |-> "open",
     known_objects |-> [o \in Objects |-> [known |-> FALSE, position |-> 0, held |-> FALSE]],
     held_object |-> None, command_queue |-> <<>>, emergency_halt |-> FALSE]

NoExecute ==
    [count |-> 0, intent |-> "", halted |-> FALSE, command |-> None, in_compound |-> FALSE,
     before |-> NewExecutor, after |-> NewExecutor]

NoCompound == [active |-> FALSE, steps |-> <<>>, results |-> <<>>, before |-> NewExecutor]

InitExecutor ==
    /\ intent_executor = NewExecutor
    /\ execute_log = NoExecute
    /\ compound_call = NoCompound

\* _update_position(new_position)
update_position(ex, new_position) ==
    LET appended == Append(ex.position_history, new_position)
    IN  [ex EXCEPT !.position_history = IF Len(appended) > max_history THEN Tail(appended)
                                        ELSE appended,
                   !.current_position = new_position]

Returns(ex, command) == [ex |-> ex, command |-> command]

\* The handlers, each with the command_type of the command it returns
handle_move_relative(ex, params) ==
    IF params.direction \notin ExecutorDirections THEN Returns(ex, None)
    ELSE Returns(update_position(ex, ex.current_position + direction_deltas(params.direction)),
                 "move")

handle_move_to_previous(ex) ==
    IF Len(ex.position_history) < 2 THEN Returns(ex, None)
    ELSE Returns(update_position(ex, ex.position_history[Len(ex.position_history) - 1]), "move")

handle_pick_object(ex, params) ==
    LET object_name == params.object_name
    IN  IF ~ex.known_objects[object_name].known THEN Returns(ex, "error")
        ELSE Returns([update_position(ex, ex.known_objects[object_name].position)
                         EXCEPT !.gripper_state = "closed",
                                !.held_object = object_name,
                                !.known_objects[object_name].held = TRUE],
                     "pick")

handle_place_object(ex) ==
    IF ex.held_object = None THEN Returns(ex, "error")
    ELSE Returns([ex EXCEPT !.known_objects[ex.held_object].position = ex.current_position,
                            !.known_objects[ex.held_object].held = FALSE,
                            !.gripper_state = "open",
                            !.held_object = None],
                 "place")

handler(ex, intent, params) ==
    CASE intent = "move_relative" -> handle_move_relative(ex, params)
      [] intent = "move_to_previous" -> handle_move_to_previous(ex)
      [] intent = "gripper_open" -> Returns([ex EXCEPT !.gripper_state = "open"], "gripper")
      [] intent = "gripper_close" -> Returns([ex EXCEPT !.gripper_state = "closed"], "gripper")
      [] intent = "emergency_stop" -> Returns([ex EXCEPT !.emergency_halt = TRUE], "emergency_halt")
      [] intent = "resume" -> Returns([ex EXCEPT !.emergency_halt = FALSE], "resume")
      [] intent = "pick_object" -> handle_pick_object(ex, params)
      [] intent = "place_object" -> handle_place_object(ex)

\* _add_to_queue(command), "if command:"
add_to_queue(returned) ==
    IF returned.command = None THEN returned
    ELSE [returned EXCEPT !.ex.command_queue = Append(@, returned.command)]

\* A halt that stops nothing
NeverHalted(ex, intent) == FALSE

\* "if self.emergency_halt.is_set() and intent != "resume""
Halted(ex, intent) == ex.emergency_halt /\ intent # "resume"

\* execute(intent, parameters), of every intent but compound_command
execute(ex, intent, params) ==
    IF ~is_intent_implemented(intent) THEN Returns(ex, "not_implemented")
    ELSE IF Halted(ex, intent) THEN Returns(ex, None)
    ELSE add_to_queue(handler(ex, intent, params))

Executed(step, returned, in_compound) ==
    [count |-> execute_log.count + 1, intent |-> step.intent,
     halted |-> intent_executor.emergency_halt, command |-> returned.command,
     in_compound |-> in_compound, before |-> intent_executor, after |-> returned.ex]

\* register_object(name, position)
RegisterObject ==
    /\ ~compound_call.active
    /\ \E name \in Objects, position \in {1} :
        /\ ~intent_executor.known_objects[name].known
        /\ intent_executor' = [intent_executor EXCEPT
                                  !.known_objects[name] = [known |-> TRUE, position |-> position,
                                                           held |-> FALSE]]
    /\ UNCHANGED <<execute_log, compound_call>>

\* execute(intent, parameters)
ExecuteIntent ==
    /\ ~compound_call.active
    /\ execute_log.count < MaxCalls
    /\ \E step \in Calls :
        LET returned == execute(intent_executor, step.intent, step)
        IN  /\ intent_executor' = returned.ex
            /\ execute_log' = Executed(step, returned, FALSE)
    /\ UNCHANGED compound_call

\* execute("compound_command", {"sequence": sequence}) up to the for loop of
\* _handle_compound_command
ExecuteCompound ==
    /\ ~compound_call.active
    /\ \E sequence \in Sequences(MaxSteps) :
        /\ execute_log.count + 1 + Len(sequence) <= MaxCalls
        /\ IF Halted(intent_executor, "compound_command") \/ sequence = <<>>
           THEN /\ execute_log' = Executed(Call("compound_command", ""),
                                           Returns(intent_executor, None), FALSE)
                /\ UNCHANGED compound_call
           ELSE /\ compound_call' = [active |-> TRUE, steps |-> sequence, results |-> <<>>,
                                     before |-> intent_executor]
                /\ UNCHANGED execute_log
    /\ UNCHANGED intent_executor

\* One turn of the for loop: "result = self.execute(intent, step_params)"
CompoundStep ==
    /\ compound_call.active
    /\ compound_call.steps # <<>>
    /\ LET step == Head(compound_call.steps)
           returned == execute(intent_executor, step.intent, step)
       IN  /\ intent_executor' = returned.ex
           /\ execute_log' = Executed(step, returned, TRUE)
           /\ compound_call' = [compound_call EXCEPT
                                   !.steps = Tail(@),
                                   !.results = IF returned.command = None THEN @
                                               ELSE Append(@, returned.command)]

\* The return of _handle_compound_command, and execute's _add_to_queue
CompoundReturn ==
    /\ compound_call.active
    /\ compound_call.steps = <<>>
    /\ LET returned == add_to_queue(Returns(intent_executor, "compound"))
       IN  /\ intent_executor' = returned.ex
           /\ execute_log' = [count |-> execute_log.count + 1, intent |-> "compound_command",
                              halted |-> compound_call.before.emergency_halt,
                              command |-> "compound", in_compound |-> FALSE,
                              before |-> compound_call.before, after |-> returned.ex]
    /\ compound_call' = NoCompound

(***************************************************************************)
(* process_multi_command_sentence, call by call: sentences of movement     *)
(* commands and of parts no movement is parsed from, joined by "and" and   *)
(* "then", processed from a start position.                                *)
(***************************************************************************)
\* The commands of a sentence that are explored
MaxCommands == 3

\* Two movements, and a part parse_movement_command returns None for
SentenceCommands == {<<"go", "right", "5">>, <<"go", "up">>, <<"wave">>}

Connectors == {"and", "then"}

RECURSIVE Sentences(_)
Sentences(n) ==
    IF n = 1 THEN SentenceCommands
    ELSE Sentences(n - 1)
            \cup {s \o <<c>> \o cmd : s \in Sentences(n - 1), c \in Connectors,
                                      cmd \in SentenceCommands}

StartPositions == {Zero, [x |-> 1, y |-> 2, z |-> 0]}

NoSentence == [called |-> FALSE, text |-> <<>>, start |-> Zero, positions |-> <<>>]

InitSentence == sentence_call = NoSentence

\* process_multi_command_sentence(text), with current_position at `start`
ProcessSentence ==
    \E text \in Sentences(MaxCommands), start \in StartPositions :
        sentence_call' = [called |-> TRUE, text |-> text, start |-> start,
                          positions |-> process_multi_command_sentence(text, start)]

(***************************************************************************)
(* The locks of speech_control_llm.py, with --precise (PRECISE_MODE on).   *)
(* The recognizer's thread runs _on_recognizing and _on_recognized, the    *)
(* two timers run _execute_partial_command and _execute_and_timeout; each  *)
(* goes through the acquisitions and releases of its handler, of           *)
(* process_multi_command_sentence on its simple-parser path and of         *)
(* add_positions_to_queue, one at a time.                                  *)
(***************************************************************************)
\* The handler calls that are explored
MaxHandlers == 4

Threads == {"recognizer", "partial_timer", "and_timer"}

Locks == {"partial_lock", "queue_lock", "position_lock", "pending_command_lock"}

\* The lock a thread at pc is about to acquire, None at the other places
Wants(pc) ==
    CASE pc = "enter"               -> "partial_lock"
      [] pc = "measurement_check"   -> "pending_command_lock"
      [] pc = "split"               -> "position_lock"
      [] pc = "missing_measurement" -> "pending_command_lock"
      [] pc = "add"                 -> "queue_lock"
      [] pc = "add_position"        -> "position_lock"
      [] OTHER                      -> None

\* Where the thread is once it has the lock
Entered(pc) ==
    CASE pc = "enter"               -> "handler"
      [] pc = "measurement_check"   -> "checking"
      [] pc = "split"               -> "parsing"
      [] pc = "missing_measurement" -> "asking"
      [] pc = "add"                 -> "add_position"
      [] pc = "add_position"        -> "appending"

At(pc, nested) == [pc |-> pc, nested |-> nested]

Idle == At("idle", FALSE)

InitLocks ==
    /\ lock_holder = [l \in Locks |-> None]
    /\ thread_pc = [t \in Threads |-> Idle]
    /\ awaiting_measurement = FALSE
    /\ lock_orders = {}
    /\ handlers_run = 0

Holds(t, l) == lock_holder[l] = t

Waiting(t, l) == Wants(thread_pc[t].pc) = l

HeldBy(t) == {l \in Locks : Holds(t, l)}

Goes(t, pc, nested) == thread_pc' = [thread_pc EXCEPT ![t] = At(pc, nested)]

Releases(t, ls) == lock_holder' = [l \in Locks |-> IF l \in ls THEN None ELSE lock_holder[l]]

\* A handler that takes no lock
TakesNoLock(t) == FALSE

\* "with self.partial_lock:", the first statement of every handler
TakesPartialLock(t) == TRUE

\* The recognizer or a timer calls a handler
HandlerStarts(t) ==
    /\ thread_pc[t] = Idle
    /\ handlers_run < MaxHandlers
    /\ handlers_run' = handlers_run + 1
    /\ Goes(t, IF TakesPartialLock(t) THEN "enter" ELSE "handler", FALSE)
    /\ UNCHANGED <<lock_holder, awaiting_measurement, lock_orders>>

\* lock.acquire() returns: the lock was free
AcquireLock(t) ==
    LET l == Wants(thread_pc[t].pc)
    IN  /\ l # None
        /\ lock_holder[l] = None
        /\ lock_holder' = [lock_holder EXCEPT ![l] = t]
        /\ Goes(t, Entered(thread_pc[t].pc), thread_pc[t].nested)
        /\ lock_orders' = lock_orders \cup
                              {<<h, l>> : h \in HeldBy(t) \cap {"position_lock",
                                                                "pending_command_lock"}}
        /\ UNCHANGED <<awaiting_measurement, handlers_run>>

\* The handler's body up to its call of process_multi_command_sentence;
\* _on_recognizing and the early returns of the others call nothing
HandlerBody(t) ==
    /\ thread_pc[t].pc = "handler"
    /\ \/ Goes(t, "leave", FALSE)
       \/ Goes(t, "measurement_check", FALSE)
    /\ UNCHANGED <<lock_holder, awaiting_measurement, lock_orders, handlers_run>>

\* "if awaiting_measurement.is_set() and pending_command_direction:", under
\* pending_command_lock: with a number in the text the function calls itself
\* with skip_measurement_check and the lock still held, without one it returns []
CheckMeasurement(t) ==
    /\ thread_pc[t].pc = "checking"
    /\ IF awaiting_measurement
       THEN \/ /\ awaiting_measurement' = FALSE
               /\ Goes(t, "split", TRUE)
               /\ UNCHANGED lock_holder
            \/ /\ Releases(t, {"pending_command_lock"})
               /\ Goes(t, "leave", FALSE)
               /\ UNCHANGED awaiting_measurement
       ELSE /\ Releases(t, {"pending_command_lock"})
            /\ Goes(t, "split", FALSE)
            /\ UNCHANGED awaiting_measurement
    /\ UNCHANGED <<lock_orders, handlers_run>>

\* The for loop under position_lock: a command without a measurement asks for
\* one, unless skip_measurement_check; otherwise the positions are returned,
\* and the caller queues them if there are any
ParseCommands(t) ==
    /\ thread_pc[t].pc = "parsing"
    /\ \/ /\ ~thread_pc[t].nested
          /\ Goes(t, "missing_measurement", FALSE)
          /\ UNCHANGED lock_holder
       \/ /\ Releases(t, {"position_lock"}
                          \cup IF thread_pc[t].nested THEN {"pending_command_lock"} ELSE {})
          /\ \E positions \in {"none", "some"} :
                Goes(t, IF positions = "some" THEN "add" ELSE "leave", FALSE)
    /\ UNCHANGED <<awaiting_measurement, lock_orders, handlers_run>>

\* "awaiting_measurement.set()" under pending_command_lock, inside
\* position_lock, and "return []"
AskMeasurement(t) ==
    /\ thread_pc[t].pc = "asking"
    /\ awaiting_measurement' = TRUE
    /\ Releases(t, {"pending_command_lock", "position_lock"})
    /\ Goes(t, "leave", FALSE)
    /\ UNCHANGED <<lock_orders, handlers_run>>

\* add_positions_to_queue: the appends under queue_lock and position_lock
AppendPositions(t) ==
    /\ thread_pc[t].pc = "appending"
    /\ Releases(t, {"position_lock", "queue_lock"})
    /\ Goes(t, "leave", FALSE)
    /\ UNCHANGED <<awaiting_measurement, lock_orders, handlers_run>>

\* The end of the handler's with block
HandlerReturns(t) ==
    /\ thread_pc[t].pc = "leave"
    /\ Releases(t, {"partial_lock"} \cap HeldBy(t))
    /\ Goes(t, "idle", FALSE)
    /\ UNCHANGED <<awaiting_measurement, lock_orders, handlers_run>>

\* A step of thread t inside a handler
ThreadStep(t) ==
    \/ AcquireLock(t)
    \/ HandlerBody(t)
    \/ CheckMeasurement(t)
    \/ ParseCommands(t)
    \/ AskMeasurement(t)
    \/ AppendPositions(t)
    \/ HandlerReturns(t)


(***************************************************************************)
(* Specifications                                                          *)
(***************************************************************************)
vars == <<execVars, planVars, ackVars, speechVars, learnVars, interpVars, compileVars, bankVars, recursionVars, executorVars, sentenceVars, lockVars>>

Init ==
    /\ InitExec
    /\ InitPlan
    /\ InitAck
    /\ InitSpeech
    /\ InitLearn
    /\ InitInterp
    /\ InitCompile
    /\ InitBank
    /\ InitRecursion
    /\ InitExecutor
    /\ InitSentence
    /\ InitLocks

\* For the subsystems that do not depend on the scene
InitOneScene == Init /\ constraints = NoConstraints

\* For the handshake, which depends on neither the scene nor the learning mode
InitOneMode == InitOneScene /\ ~silent_learning

notStackVars == <<planVars, ackVars, speechVars, learnVars, interpVars, compileVars, bankVars, recursionVars, executorVars, sentenceVars, lockVars>>

NextStack ==
    \/ AddLayer /\ UNCHANGED notStackVars
    \/ Serve /\ UNCHANGED notStackVars
    \/ ClearAssembly /\ UNCHANGED notStackVars
    \/ SetSpeed /\ UNCHANGED notStackVars
    \/ AdjustSpeed /\ UNCHANGED notStackVars

SpecStack == Init /\ [][NextStack]_vars

notRestartVars == <<planVars, ackVars, speechVars, learnVars, interpVars, compileVars, bankVars, recursionVars, executorVars, sentenceVars, lockVars>>

NextRestart ==
    \/ AddLayer /\ UNCHANGED notRestartVars
    \/ Serve /\ UNCHANGED notRestartVars
    \/ ClearAssembly /\ UNCHANGED notRestartVars
    \/ Restart /\ UNCHANGED notRestartVars

SpecRestart == Init /\ [][NextRestart]_vars

notPlanVars == <<ackVars, speechVars, learnVars, interpVars, compileVars, bankVars, recursionVars, executorVars, sentenceVars, lockVars>>

NextPlan ==
    \/ PlanCall /\ UNCHANGED notPlanVars
    \/ PlanStep /\ UNCHANGED notPlanVars
    \/ PlanReturn /\ UNCHANGED notPlanVars

SpecPlan == Init /\ [][NextPlan]_vars

notAckVars == <<execVars, planVars, speechVars, learnVars, interpVars, compileVars, bankVars, recursionVars, executorVars, sentenceVars, lockVars>>

NextAck ==
    \/ Tick /\ UNCHANGED notAckVars
    \/ SendAndWaitWrite /\ UNCHANGED notAckVars
    \/ WritePositionToFile /\ UNCHANGED notAckVars
    \/ Poll /\ UNCHANGED notAckVars
    \/ AckTimeout /\ UNCHANGED notAckVars
    \/ UnityCheckForCommand /\ UNCHANGED notAckVars
    \/ UnityWriteAck /\ UNCHANGED notAckVars
    \/ UnityWriteUnfinished /\ UNCHANGED notAckVars

SpecAck == InitOneMode /\ [][NextAck]_vars

\* The clock runs, and the thread in _send_and_wait is scheduled; nothing is
\* assumed of the actuator
SpecAckFair ==
    /\ InitOneMode
    /\ [][NextAck]_vars
    /\ WF_vars(Tick /\ UNCHANGED notAckVars)
    /\ WF_vars(AckTimeout /\ UNCHANGED notAckVars)

notSpeechVars == <<execVars, planVars, ackVars, learnVars, interpVars, compileVars, bankVars, recursionVars, executorVars, sentenceVars, lockVars>>

NextSpeech ==
    \/ Speak /\ UNCHANGED notSpeechVars
    \/ OnRecognizing /\ UNCHANGED notSpeechVars
    \/ OnRecognized /\ UNCHANGED notSpeechVars
    \/ OnNoMatch /\ UNCHANGED notSpeechVars
    \/ PartialTimerFires /\ UNCHANGED notSpeechVars
    \/ AndTimerFires /\ UNCHANGED notSpeechVars
    \/ ExecutePartialCommand /\ UNCHANGED notSpeechVars
    \/ ExecuteAndTimeout /\ UNCHANGED notSpeechVars

SpecSpeech == Init /\ [][NextSpeech]_vars

notLearnVars == <<execVars, planVars, ackVars, speechVars, interpVars, compileVars, bankVars, recursionVars, executorVars, sentenceVars, lockVars>>

NextLearn ==
    \/ ProcessLowConfidenceMatch /\ UNCHANGED notLearnVars
    \/ TryLlmInterpretation /\ UNCHANGED notLearnVars
    \/ HandleConfirmation /\ UNCHANGED notLearnVars
    \/ TrySequenceInterpreter /\ UNCHANGED notLearnVars
    \/ RunSequenceCommand /\ UNCHANGED notLearnVars

SpecLearn == InitOneScene /\ [][NextLearn]_vars

notInterpVars == <<execVars, planVars, ackVars, speechVars, learnVars, compileVars, bankVars, recursionVars, executorVars, sentenceVars, lockVars>>

NextInterp ==
    \/ InterpretPass1 /\ UNCHANGED notInterpVars
    \/ InterpretPass2 /\ UNCHANGED notInterpVars
    \/ InterpretPass3 /\ UNCHANGED notInterpVars

SpecInterp == InitOneScene /\ [][NextInterp]_vars

notCompileVars == <<execVars, planVars, ackVars, speechVars, learnVars, interpVars, bankVars, recursionVars, executorVars, sentenceVars, lockVars>>

NextCompile ==
    \/ LearnComposite /\ UNCHANGED notCompileVars
    \/ CompileInstruction /\ UNCHANGED notCompileVars
    \/ CompileSequence /\ UNCHANGED notCompileVars

SpecCompile == InitOneScene /\ [][NextCompile]_vars

notRegistryVars == <<execVars, planVars, ackVars, speechVars, learnVars, interpVars, bankVars, recursionVars, executorVars, sentenceVars, lockVars>>

NextRegistry ==
    \/ LearnComposite /\ UNCHANGED notRegistryVars
    \/ MemoryWriterProcess /\ UNCHANGED notRegistryVars
    \/ LoadInstructionSet /\ UNCHANGED notRegistryVars

SpecRegistry == InitOneScene /\ [][NextRegistry]_vars

notReloadVars == <<execVars, planVars, ackVars, speechVars, learnVars, interpVars, bankVars, recursionVars, executorVars, sentenceVars, lockVars>>

NextReload ==
    \/ MemoryWriterProcess /\ UNCHANGED notReloadVars
    \/ LoadInstructionSet /\ UNCHANGED notReloadVars
    \/ CompileInstruction /\ UNCHANGED notReloadVars
    \/ CompileSequence /\ UNCHANGED notReloadVars

SpecReload == InitOneScene /\ [][NextReload]_vars

notBankVars == <<execVars, planVars, ackVars, speechVars, learnVars, interpVars, compileVars, recursionVars, executorVars, sentenceVars, lockVars>>

NextBank ==
    \/ BankAddPhrase /\ UNCHANGED notBankVars
    \/ BankLookup /\ UNCHANGED notBankVars

SpecBank == InitOneMode /\ [][NextBank]_vars

notRecursionVars == <<execVars, planVars, ackVars, speechVars, learnVars, interpVars, bankVars, executorVars, sentenceVars, lockVars>>

NextRecursion ==
    \/ LearnReference /\ UNCHANGED notRecursionVars
    \/ CompileCall /\ UNCHANGED notRecursionVars
    \/ CompileStep /\ UNCHANGED notRecursionVars

SpecRecursion == InitOneMode /\ [][NextRecursion]_vars

\* The thread in compile_instruction is scheduled
SpecRecursionFair ==
    /\ InitOneMode
    /\ [][NextRecursion]_vars
    /\ WF_vars(CompileStep /\ UNCHANGED notRecursionVars)

notExecutorVars == <<execVars, planVars, ackVars, speechVars, learnVars, interpVars, compileVars, bankVars, recursionVars, sentenceVars, lockVars>>

NextExecutor ==
    \/ RegisterObject /\ UNCHANGED notExecutorVars
    \/ ExecuteIntent /\ UNCHANGED notExecutorVars
    \/ ExecuteCompound /\ UNCHANGED notExecutorVars
    \/ CompoundStep /\ UNCHANGED notExecutorVars
    \/ CompoundReturn /\ UNCHANGED notExecutorVars

SpecExecutor == InitOneMode /\ [][NextExecutor]_vars

notSentenceVars == <<execVars, planVars, ackVars, speechVars, learnVars, interpVars, compileVars, bankVars, recursionVars, executorVars, lockVars>>

NextSentence ==
    \/ ProcessSentence /\ UNCHANGED notSentenceVars

SpecSentence == InitOneMode /\ [][NextSentence]_vars

notLocksVars == <<execVars, planVars, ackVars, speechVars, learnVars, interpVars, compileVars, bankVars, recursionVars, executorVars, sentenceVars>>

NextLocks ==
    \/ (\E t \in Threads : HandlerStarts(t)) /\ UNCHANGED notLocksVars
    \/ (\E t \in Threads : AcquireLock(t)) /\ UNCHANGED notLocksVars
    \/ (\E t \in Threads : HandlerBody(t)) /\ UNCHANGED notLocksVars
    \/ (\E t \in Threads : CheckMeasurement(t)) /\ UNCHANGED notLocksVars
    \/ (\E t \in Threads : ParseCommands(t)) /\ UNCHANGED notLocksVars
    \/ (\E t \in Threads : AskMeasurement(t)) /\ UNCHANGED notLocksVars
    \/ (\E t \in Threads : AppendPositions(t)) /\ UNCHANGED notLocksVars
    \/ (\E t \in Threads : HandlerReturns(t)) /\ UNCHANGED notLocksVars

SpecLocks == InitOneMode /\ [][NextLocks]_vars

\* Every thread inside a handler is scheduled
SpecLocksFair ==
    /\ InitOneMode
    /\ [][NextLocks]_vars
    /\ \A t \in Threads : WF_vars(ThreadStep(t) /\ UNCHANGED notLocksVars)

(***************************************************************************)
(* Claims about the sub-executor and the plan executor                     *)
(***************************************************************************)

\* C1: the recorded stack height (and the stack's length) never exceeds
\* max_stack_height, and an add-layer call made when max_stack_height layers
\* are on the stack returns failure and leaves stack and height unchanged.
C1_StackNeverExceedsMax ==
    /\ sandwich.assembly_stack_height <= max_stack_height
    /\ Len(sandwich.assembly_stack) = sandwich.assembly_stack_height
    /\ (lastCall.op = "add_layer"
          /\ lastCall.pre.assembly_stack_height >= max_stack_height)
       => /\ ~lastCall.ok
          /\ sandwich.assembly_stack = lastCall.pre.assembly_stack
          /\ sandwich.assembly_stack_height = lastCall.pre.assembly_stack_height

\* The ninth add_layer("bread") on a stack of eight was refused
C1_Witness ==
    /\ max_stack_height = DefaultMaxStackHeight
    /\ lastCall.op = "add_layer"
    /\ lastCall.arg = "bread"
    /\ ~lastCall.ok
    /\ lastCall.pre.assembly_stack_height = max_stack_height
    /\ Len(sandwich.assembly_stack) = max_stack_height

\* The world execute_plan leaves behind when it has called execute_step on
\* the logged steps and undone nothing
RECURSIVE Replay(_, _, _)
Replay(w, log, k) ==
    IF k > Len(log) THEN w ELSE Replay(ExecuteStep(w, log[k].step).w, log, k + 1)

AllOk(log, n) == \A k \in 1..n : log[k].ok

C21_StepIsDispatched ==
    [][(plan_pc \in 1..Len(plan) /\ plan_pc' = plan_pc + 1) =>
       LET step == plan[plan_pc]
           Ran(r) == /\ exec_log'[Len(exec_log')].ok = r.ok
                     /\ sandwich' = r.w.sx
                     /\ scene_state' = r.w.st
                     /\ scene_file' = r.w.file
                     /\ stack_shared' = r.w.shared
       IN  CASE step.instruction = "move_to"        -> Ran(ExecMoveTo(World, step.params))
             [] step.instruction = "move_relative"  -> Ran(ExecMoveRelative(World, step.params))
             [] step.instruction = "gripper_open"   -> Ran(ExecGripperOpen(World))
             [] step.instruction = "gripper_close"  -> Ran(ExecGripperClose(World))
             [] step.instruction = "wait"           -> Ran(Ok(World))
             [] step.instruction = "set_speed"      -> Ran(ExecSetSpeed(World, step.params))
             [] step.instruction = "add_layer"      -> Ran(ExecAddLayer(World, step.params))
             [] step.instruction = "serve"          -> Ran(ExecServe(World, step.params))
             [] step.instruction = "clear_assembly" -> Ran(ExecClearAssembly(World))
             [] step.instruction = "adjust_speed"   -> Ran(ExecAdjustSpeed(World, step.params))
             [] OTHER -> /\ ~exec_log'[Len(exec_log')].ok
                         /\ UNCHANGED execVars]_vars

\* A plan moved to the bread slot, added a layer through the sub-executor,
\* and failed at "fly", which no executor handles
C21_Witness ==
    /\ Len(exec_log) = 3
    /\ exec_log[1].step.instruction = "move_to" /\ exec_log[1].ok
    /\ exec_log[2].step.instruction = "add_layer" /\ exec_log[2].ok
    /\ exec_log[3].step.instruction = "fly" /\ ~exec_log[3].ok
    /\ plan_result = "false"
    /\ sandwich.assembly_stack = <<"bread">>

\* C22: after execute_serve(plate) returned True the assembly stack is empty
\* with height 0, in the executor and in the scene state, and the scene
\* state's plates hold under that plate exactly the stack as it was
\* immediately before the call, in order.
C22_ServedStackIsOnPlate ==
    (lastCall.op = "serve" /\ lastCall.ok) =>
        /\ sandwich.assembly_stack = <<>>
        /\ sandwich.assembly_stack_height = 0
        /\ scene_state.assembly_stack = <<>>
        /\ scene_state.assembly_stack_height = 0
        /\ lastCall.arg \in DOMAIN scene_state.plates
        /\ scene_state.plates[lastCall.arg] = lastCall.pre.assembly_stack
        /\ lastCall.pre.assembly_stack # <<>>

\* A stack of bread below cheese was served
C22_Witness ==
    /\ lastCall.op = "serve"
    /\ lastCall.ok
    /\ Len(lastCall.pre.assembly_stack) >= 2
    /\ lastCall.pre.assembly_stack[1] # lastCall.pre.assembly_stack[2]
    /\ scene_state.plates["plate_1"] = lastCall.pre.assembly_stack

\* C23: after execute_clear_assembly returned True the stack is empty with
\* height 0, six motions having been sent for each item that was on it; and
\* a call on an empty stack returns True, sends no motion and leaves the
\* executor, the scene state and the scene document as they were, so that a
\* second call after a successful one changes nothing.
C23_ClearAssemblyIdempotent ==
    [][lastCall'.op = "clear_assembly" =>
          /\ lastCall'.ok =>
                /\ sandwich'.assembly_stack = <<>>
                /\ sandwich'.assembly_stack_height = 0
                /\ lastCall'.motions = 6 * Len(sandwich.assembly_stack)
          /\ sandwich.assembly_stack = <<>> =>
                /\ lastCall'.ok
                /\ lastCall'.motions = 0
                /\ UNCHANGED <<sandwich, scene_state, scene_file>>]_vars

\* A stack of two items was cleared
C23_Witness ==
    /\ lastCall.op = "clear_assembly"
    /\ lastCall.ok
    /\ Len(lastCall.pre.assembly_stack) = 2
    /\ lastCall.motions = 12
    /\ sandwich.assembly_stack = <<>>

\* clear_assembly was called on an empty stack, after a stack had been served
C23_WitnessEmpty ==
    /\ lastCall.op = "clear_assembly"
    /\ lastCall.ok
    /\ lastCall.pre.assembly_stack = <<>>
    /\ lastCall.motions = 0
    /\ scene_state.plates # << >>


(***************************************************************************)
(* Claims about the acknowledgment handshake                               *)
(***************************************************************************)

\* C2: every acknowledgment _send_and_wait adopted as the confirmed position
\* has a modification time that is not older than the write time recorded
\* for the command, and while the acknowledgment file is older than the
\* write time of the command being waited for, nothing is adopted for it,
\* however many times it was polled.
C2_StaleAckNeverAdopted ==
    /\ \A i \in 1..Len(ack_log) :
          ack_log[i].result = "ack" => ack_log[i].ack_mtime >= ack_log[i].write_time
    /\ \A i \in 1..Len(ack_log) :
          ack_log[i].result = "timeout" => ack_log[i].confirmed = ack_log[i].id
    /\ (sender.pc = "polling" /\ sender.stale_polls > 0) =>
          \A i \in 1..Len(ack_log) : ack_log[i].id # sender.id

\* A second command polled the acknowledgment of the first one twice, found
\* it stale both times, and then adopted the acknowledgment of its own move
C2_Witness ==
    \E i \in 1..Len(ack_log) :
        /\ ack_log[i].stale_polls >= 2
        /\ ack_log[i].result = "ack"
        /\ ack_log[i].ack_of = ack_log[i].id
        /\ ack_log[i].id > 1

\* C3: the acknowledgment _send_and_wait adopts for a command is the one the
\* actuator wrote for that same command, never one it wrote for an earlier
\* command of _send_and_wait that arrives after the newer command was written.
C3_AdoptedAckIsOfSameCommand ==
    \A i \in 1..Len(ack_log) :
        (ack_log[i].result = "ack" /\ ack_log[i].ack_of_kind = "move")
            => ack_log[i].ack_of = ack_log[i].id

\* C3, for every write of the command file: the adopted acknowledgment is
\* not the actuator's answer to a gripper-only write either.
C3_AdoptedAckIsOfAMove ==
    \A i \in 1..Len(ack_log) :
        ack_log[i].result = "ack" => ack_log[i].ack_of_kind = "move"


\* C18: a call of _send_and_wait that read no fresh acknowledgment with
\* "completed": true before its deadline returns exactly the commanded x, y
\* and z, a dict of these three keys, and no position of an acknowledgment.
C18_TimeoutReturnsExactlyXYZ ==
    \A i \in 1..Len(ack_log) :
        ack_log[i].result = "timeout" =>
            /\ ack_log[i].confirmed = ack_log[i].id
            /\ ack_log[i].keys = {"x", "y", "z"}

\* C18, for the coordinates: a call that ran out of time returns the x, y
\* and z it was given, whatever tcp_ack.json holds by then, in the dict it
\* wrote, which also has the key gripper_position, and leaves the gripper
\* value alone; only a call that read a fresh completed acknowledgment
\* returns a position taken from an acknowledgment.
C18_TimeoutReturnsCommanded ==
    \A i \in 1..Len(ack_log) :
        /\ ack_log[i].result = "timeout" =>
              /\ ack_log[i].confirmed = ack_log[i].id
              /\ ack_log[i].keys = {"x", "y", "z", "gripper_position"}
              /\ ack_log[i].gripper_after = ack_log[i].gripper_before
        /\ ack_log[i].result = "ack" => ack_log[i].ack_state = "completed"

\* One call ran out of time over the stale acknowledgment of an earlier
\* command, and one over a fresh acknowledgment that was not completed
C18_Witness ==
    /\ \E i \in 1..Len(ack_log) :
          /\ ack_log[i].result = "timeout"
          /\ ack_log[i].ack_state = "stale"
          /\ ack_log[i].id > 1
    /\ \E i \in 1..Len(ack_log) :
          /\ ack_log[i].result = "timeout"
          /\ ack_log[i].ack_state = "incomplete"

\* C19: when _send_and_wait accepts a fresh completed acknowledgment, the
\* position of that acknowledgment becomes current_position, and a gripper
\* value the acknowledgment reports, in its record or in its position,
\* becomes gripper_position.
C19_AckBecomesExecutorState ==
    /\ \A i \in 1..Len(ack_log) :
          ack_log[i].result = "ack" =>
              /\ ack_log[i].confirmed = ack_log[i].ack_position
              /\ ack_log[i].ack_gripper_in # "none" =>
                    ack_log[i].gripper_after = ack_log[i].ack_gripper
    /\ ack_log # <<>> => current_position = ack_log[Len(ack_log)].confirmed

\* C19, for the acknowledgments that carry the gripper value inside their
\* position, as those of FakeUnity do
C19_PositionOfAckIsAdopted ==
    /\ \A i \in 1..Len(ack_log) :
          ack_log[i].result = "ack" =>
              /\ ack_log[i].confirmed = ack_log[i].ack_position
              /\ ack_log[i].ack_gripper_in = "position" =>
                    ack_log[i].gripper_after = ack_log[i].ack_gripper
              /\ ack_log[i].ack_gripper_in # "position" =>
                    ack_log[i].gripper_after = ack_log[i].gripper_before
    /\ ack_log # <<>> => current_position = ack_log[Len(ack_log)].confirmed

Axes == {"x", "y", "z"}

\* The queue entries that came from utterance u and move along the axis
Enqueued(u, axis) ==
    {i \in 1..Len(command_queue) :
        command_queue[i].utt = u /\ command_queue[i].delta[axis] # 0}

\* C4: of one utterance (each of the utterances names a direction at most
\* once) every movement is enqueued at most once, whatever the order of the
\* partial timer callbacks, the and-timeout callback and the final handler.
C4_EachMovementEnqueuedOnce ==
    \A u \in 1..MaxUtterances : \A axis \in Axes : Cardinality(Enqueued(u, axis)) <= 1

\* C5: once an emergency keyword was detected, an emergency-stop instruction
\* has been issued: the files the robot side reads say emergency_halt.
C5_EmergencyStopIssued == exited => detailed_file.emergency_halt

\* C5, the part about movements: after the keyword is detected nothing more
\* is enqueued.
C5_NoMovementAfterDetection == [][exited => command_queue' = command_queue]_vars

(***************************************************************************)
(* Claims about the phrase cache                                           *)
(***************************************************************************)

\* C7: every entry of the phrase cache, whichever path of the command
\* processor wrote it (interpretation by the language model, or the answer
\* "yes" to a confirmation), comes from an interpretation that was executed
\* successfully and whose confidence was at least the learn threshold.
C7_OnlyConfidentSuccessesLearned ==
    \A p \in DOMAIN phrases :
        phrases[p].ok /\ phrases[p].confidence >= LLM_CONFIDENCE_THRESHOLD

\* C7, for the sequence cache: every entry the sequence paths wrote comes from
\* a confident interpretation.
C7_SequencesLearnedAreConfident ==
    \A p \in DOMAIN sequence_phrases :
        sequence_phrases[p].confidence >= LLM_CONFIDENCE_THRESHOLD

(***************************************************************************)
(* Claims about the sequence interpreter                                   *)
(***************************************************************************)

\* C8: when interpret returns after Pass 2 (and Pass 3, if it ran) ran with no
\* call failure, every step of the returned sequence names an instruction of
\* the registry's valid set.
C8_ValidatedSequenceIsValid ==
    (interp_outcome = "returned" /\ passes.pass2 = "ran" /\ passes.pass3 # "failed")
        => \A k \in 1..Len(interp_result.sequence) :
               interp_result.sequence[k].instruction \in ValidInstructions

\* C9: for a command that is not trivial, interpret never raises, and when the
\* model call failed or its answer could not be used the result has
\* confidence zero and a user_feedback string.
C9_AlwaysStructuredResult ==
    voice_command # "" =>
        /\ interp_outcome # "raised"
        /\ (interp_outcome = "returned" /\ passes.failure) =>
              /\ interp_result.confidence = 0
              /\ interp_result.user_feedback # None

\* C9, for every command: interpret returns a structured result.
C9_NeverNone == interp_outcome # "returned None"

(***************************************************************************)
(* Claims about the compiler                                               *)
(***************************************************************************)

\* The steps of a plan; none when the compilation returned None
StepsOf(p) == IF p.ok THEN p.steps ELSE <<>>

\* compile_instruction was called on a composite whose sequence has two items
CompiledPair ==
    /\ compile_call.kind = "instruction"
    /\ get_instruction(instruction_set, compile_call.name) = "composite"
    /\ Len(get_composites(instruction_set)[compile_call.name].sequence) = 2

\* The steps of the compilation of item k of the compiled composite's sequence
SubSteps(k) ==
    LET seq_item == get_composites(instruction_set)[compile_call.name].sequence[k]
    IN  StepsOf(compile_instruction(instruction_set, seq_item.instruction,
                                    substitute_params(seq_item.params, compile_call.params)))

\* C10: the plan compiled for a composite whose sequence is [S1, S2] has
\* exactly the steps of the compilation of S1 with the substituted params
\* followed by those of S2, for composites nested up to three levels.
C10_CompositeIsConcatenation ==
    CompiledPair =>
        /\ compile_call.plan.ok
        /\ compile_call.plan.steps = SubSteps(1) \o SubSteps(2)

\* C10 witness: a composite of two items nested three levels deep was compiled
\* with an item parameter, and its two halves contribute different steps.
C10_Witness ==
    /\ CompiledPair
    /\ ~Nests(instruction_set, compile_call.name, 2)
    /\ Len(compile_call.params) > 0
    /\ SubSteps(1) # <<>>
    /\ SubSteps(2) # <<>>
    /\ SubSteps(1) \o SubSteps(2) # SubSteps(2) \o SubSteps(1)
    /\ compile_call.plan.steps = SubSteps(1) \o SubSteps(2)

\* C11: the plan compiled for a primitive has exactly one step, whose
\* instruction is the primitive and whose params are the caller's params,
\* whatever composites the registry holds.
C11_PrimitiveIsOneStep ==
    (compile_call.kind = "instruction" /\ compile_call.name \in Primitives) =>
        /\ compile_call.plan.ok
        /\ compile_call.plan.steps =
              << [instruction |-> compile_call.name, params |-> compile_call.params,
                  is_primitive |-> TRUE] >>

\* C11 witness: move_relative was compiled with two params while the registry
\* holds a composite.
C11_Witness ==
    /\ compile_call.kind = "instruction"
    /\ compile_call.name = "move_relative"
    /\ Len(compile_call.params) = 2
    /\ \E name \in CompositeNames : get_composites(instruction_set)[name].defined
    /\ Len(compile_call.plan.steps) = 1
    /\ compile_call.plan.steps[1].params = compile_call.params

\* The "{param}" tokens a template holds
PlaceholderTokens == { Placeholder(key) : key \in {"item", "destination", "location"} }

\* A params dictionary with a placeholder left in one of its strings
HasPlaceholder(params) ==
    \E i \in 1..Len(params) :
        /\ params[i].value.type = "str"
        /\ \E j \in 1..Len(params[i].value.text) :
               params[i].value.text[j] \in PlaceholderTokens

\* C12: when compile_instruction is called with concrete params, no step of
\* the plan it returns has a "{param}" placeholder left in its params.
C12_NoPlaceholderRemains ==
    (compile_call.kind = "instruction" /\ ~HasPlaceholder(compile_call.params)) =>
        \A k \in 1..Len(compile_call.plan.steps) :
            ~HasPlaceholder(compile_call.plan.steps[k].params)

\* C12, the scenario pick_up(item) = [move_to(location="{item}_slot"),
\* gripper_close()]: compiled with item = cheese it gives
\* move_to(location="cheese_slot") and then gripper_close().
C12_PickUpCheese ==
    (/\ compile_call.kind = "instruction"
     /\ compile_call.name = "pick_up"
     /\ compile_call.params = <<Item("item", Str(<<"cheese">>))>>
     /\ get_composites(instruction_set)["pick_up"].sequence =
            << SeqItem("move_to", <<Item("location", Str(<<"{item}", "_slot">>))>>),
               SeqItem("gripper_close", <<>>) >>) =>
        compile_call.plan.steps =
            << ExecutionStep("move_to", <<Item("location", Str(<<"cheese", "_slot">>))>>),
               ExecutionStep("gripper_close", <<>>) >>

\* The items of a sequence whose instruction the registry knows, in order
RECURSIVE KnownItems(_)
KnownItems(sequence) ==
    IF sequence = <<>> THEN <<>>
    ELSE (IF get_instruction(instruction_set, Head(sequence).instruction) # "none"
          THEN <<Head(sequence)>> ELSE <<>>) \o KnownItems(Tail(sequence))

\* The steps of the compilations of the items of a sequence, one after another
RECURSIVE StepsInOrder(_, _)
StepsInOrder(sequence, params) ==
    IF sequence = <<>> THEN <<>>
    ELSE StepsOf(compile_instruction(instruction_set, Head(sequence).instruction,
                                     substitute_params(Head(sequence).params, params)))
         \o StepsInOrder(Tail(sequence), params)

\* C13: compile_instruction of an unknown name returns None; a composite, or a
\* list given to compile_sequence, that names an unknown instruction compiles
\* to the steps of its other items, in order.
C13_UnknownIsSkipped ==
    /\ (compile_call.kind = "instruction"
          /\ get_instruction(instruction_set, compile_call.name) = "none") =>
            compile_call.plan = NoPlan
    /\ (compile_call.kind = "instruction"
          /\ get_instruction(instruction_set, compile_call.name) = "composite") =>
            /\ compile_call.plan.ok
            /\ compile_call.plan.steps =
                  StepsInOrder(KnownItems(get_composites(instruction_set)[compile_call.name].sequence),
                               compile_call.params)
    /\ compile_call.kind = "sequence" =>
            /\ compile_call.plan.ok
            /\ compile_call.plan.steps =
                  StepsInOrder(KnownItems(compile_call.instructions), <<>>)

\* C13 witness: a composite whose second of three items is unknown was
\* compiled with an item, and the plan has the steps of the first and the third.
C13_Witness ==
    /\ compile_call.kind = "instruction"
    /\ compile_call.name = "pick_up"
    /\ Len(get_composites(instruction_set)["pick_up"].sequence) = 3
    /\ get_instruction(instruction_set,
                       get_composites(instruction_set)["pick_up"].sequence[2].instruction) = "none"
    /\ compile_call.params = <<Item("item", Str(<<"cheese">>))>>
    /\ compile_call.plan.steps =
          << ExecutionStep("gripper_close", <<>>),
             ExecutionStep("move_to", <<Item("location", Str(<<"cheese", "_slot">>))>>) >>

(***************************************************************************)
(* Claims about the registry                                               *)
(***************************************************************************)

\* C14: a learn_composite whose sequence names an instruction that is not in
\* the registry returns False and leaves the registry in memory and the
\* instruction-set document as they were.
C14_FailedLearnChangesNothing ==
    [][(/\ learn_call' # NoLearn
        /\ LearnCompositeCall(learn_call'.name, learn_call'.sequence)
        /\ \E k \in 1..Len(learn_call'.sequence) :
               get_instruction(instruction_set, learn_call'.sequence[k].instruction) = "none")
       => /\ learn_result' = "False"
          /\ instruction_set' = instruction_set
          /\ instruction_file' = instruction_file]_vars

\* C14 witness: learn_composite returned False for a sequence whose second
\* item is unknown, in a registry that holds a composite and whose document
\* has a learned composite the registry has not loaded.
C14_Witness ==
    /\ learn_result = "False"
    /\ Len(learn_call.sequence) = 3
    /\ get_instruction(instruction_set, learn_call.sequence[1].instruction) # "none"
    /\ get_instruction(instruction_set, learn_call.sequence[2].instruction) = "none"
    /\ \E name \in CompositeNames : instruction_set.composites[name].defined
    /\ instruction_file # instruction_set

\* Every composite and learned composite of a registry references only
\* instructions the registry has
ReferencesExist(set) ==
    \A name \in CompositeNames :
        /\ \A k \in 1..Len(set.composites[name].sequence) :
               get_instruction(set, set.composites[name].sequence[k].instruction) # "none"
        /\ \A k \in 1..Len(set.learned_composites[name].sequence) :
               get_instruction(set, set.learned_composites[name].sequence[k].instruction) # "none"

\* C15: after any learn operations (learn_composite, the memory writer) every
\* composite and learned composite, of the registry in memory and of the
\* document, references only instructions that exist in it.
C15_ReferencesExist ==
    /\ ReferencesExist(instruction_set)
    /\ ReferencesExist(instruction_file)

\* C15, for learn_composite alone: the registry in memory keeps its references.
C15_LearnCompositeKeepsReferences == ReferencesExist(instruction_set)

\* C16: after learn_composite returned True, get_instruction of that name
\* gives the composite with the sequence just supplied.
C16_LearnedDefinitionIsReturned ==
    learn_result = "True" =>
        /\ get_instruction(instruction_set, learn_call.name) = "composite"
        /\ get_composites(instruction_set)[learn_call.name].sequence = learn_call.sequence

\* C17: whenever a handler of the executor has returned, and with it every
\* update_state it made, the state of the scene-context document equals the
\* scene state in memory.
C17_SceneStatePersisted == scene_file = scene_state

\* C17, for learn_composite: when it returns True the instruction-set document
\* equals the registry in memory.
C17_LearnedCompositePersisted ==
    [][(/\ learn_call' # NoLearn
        /\ LearnCompositeCall(learn_call'.name, learn_call'.sequence)
        /\ learn_result' = "True")
       => instruction_file' = instruction_set']_vars

(***************************************************************************)
(* Claims about the phrase bank                                            *)
(***************************************************************************)
StoredResult(entry) == [intent |-> entry.intent, parameters |-> entry.parameters]

\* C24: a phrase that was added through add_phrase, looked up with the text
\* it was added with, gives the result it was added with, whatever the text,
\* numerals and units included.
C24_LearnedPhraseIsFound ==
    bank_call.op = "lookup" =>
        \A i \in 1..Len(bank_call.before) :
            bank_call.before[i].given = bank_call.utterance =>
                bank_call.result = bank_call.before[i].learned

\* C24, for the texts without a numeral, as long as no lookup with a distance
\* has matched the entry: the lookup is an exact match of that entry, and
\* gives what was learned.
C24_PlainPhraseIsFound ==
    bank_call.op = "lookup" =>
        \A i \in 1..Len(bank_call.before) :
            /\ bank_call.before[i].given = bank_call.utterance
            /\ ~extract_distance(bank_call.utterance).found
            /\ StoredResult(bank_call.before[i]) = bank_call.before[i].learned
            => /\ bank_call.index = i
               /\ bank_call.confidence = [num |-> 1, den |-> 1]
               /\ bank_call.result = bank_call.before[i].learned

\* "Go up!" was learned and is looked up
C24_Witness ==
    /\ bank_call.op = "lookup"
    /\ bank_call.utterance = <<"G", "o", " ", "u", "p", "!">>
    /\ \E i \in 1..Len(bank_call.before) :
           /\ bank_call.before[i].given = bank_call.utterance
           /\ bank_call.result = bank_call.before[i].learned

\* C25: add_phrase stores the result when the normalized phrase is absent and
\* replaces the stored result when it is present: after add_phrase(p, r) the
\* bank has r under normalize(p).
C25_LearnOverwrites ==
    bank_call.op = "add_phrase" =>
        LET i == IndexOf(phrase_bank, normalize(bank_call.phrase))
        IN  i # 0 /\ StoredResult(phrase_bank[i]) = bank_call.result

\* C25, as the code has it: add_phrase stores the result and returns True when
\* the normalized phrase is absent; when it is present the bank stays as it
\* is and add_phrase returns False.
C25_LearnInsertsOnce ==
    [][bank_call'.op = "add_phrase" =>
          LET normalized == normalize(bank_call'.phrase)
              i == IndexOf(phrase_bank, normalized)
          IN  IF i = 0
              THEN /\ bank_call'.returned
                   /\ Len(phrase_bank') = Len(phrase_bank) + 1
                   /\ SubSeq(phrase_bank', 1, Len(phrase_bank)) = phrase_bank
                   /\ phrase_bank'[Len(phrase_bank')].phrase = normalized
                   /\ StoredResult(phrase_bank'[Len(phrase_bank')]) = bank_call'.result
              ELSE /\ ~bank_call'.returned
                   /\ phrase_bank' = phrase_bank]_vars

\* add_phrase was called for a phrase the bank has, with another result
C25_Witness ==
    /\ bank_call.op = "add_phrase"
    /\ ~bank_call.returned
    /\ \E i \in 1..Len(phrase_bank) :
           /\ phrase_bank[i].phrase = normalize(bank_call.phrase)
           /\ StoredResult(phrase_bank[i]) # bank_call.result

\* The key lookup matches: the utterance without its distances, normalized
LookupKey(utterance) == normalize(extract_distance(utterance).text)

\* Entry i of the bank is as similar to the key as any entry is
IsBest(data, key, i) ==
    \A j \in 1..Len(data) :
        ~Greater(similarity(key, data[j].phrase), similarity(key, data[i].phrase))

\* C26: a lookup without an exact match goes by the best similarity over all
\* phrases of the bank: at FUZZY_MATCH_THRESHOLD or above the best entry is
\* returned with no confirmation needed, from FUZZY_CONFIRM_THRESHOLD up to
\* FUZZY_MATCH_THRESHOLD it is returned as needing confirmation, below there is
\* no result.
C26_FuzzyLookupClassifies ==
    (bank_call.op = "lookup" /\ IndexOf(bank_call.before, LookupKey(bank_call.utterance)) = 0) =>
        LET data == bank_call.before
            key == LookupKey(bank_call.utterance)
            hit == /\ bank_call.index \in 1..Len(data)
                   /\ IsBest(data, key, bank_call.index)
                   /\ bank_call.confidence = similarity(key, data[bank_call.index].phrase)
                   /\ bank_call.result.intent = data[bank_call.index].intent
        IN  IF \E i \in 1..Len(data) : AtLeast(similarity(key, data[i].phrase), FUZZY_MATCH_THRESHOLD)
            THEN hit /\ ~bank_call.needs_confirmation
            ELSE IF \E i \in 1..Len(data) :
                        AtLeast(similarity(key, data[i].phrase), FUZZY_CONFIRM_THRESHOLD)
            THEN hit /\ bank_call.needs_confirmation
            ELSE /\ bank_call.result = NoMatch
                 /\ bank_call.index = 0
                 /\ ~bank_call.needs_confirmation

\* "up" was looked up in a bank whose best phrase is "go up", 4/7 similar
C26_Witness ==
    /\ bank_call.op = "lookup"
    /\ bank_call.needs_confirmation
    /\ bank_call.confidence = [num |-> 4, den |-> 7]
    /\ Len(bank_call.before) = 2
    /\ bank_call.index = 2

\* "go on" is 6/10 similar to "go up", just FUZZY_MATCH_THRESHOLD: a confident hit
C26_WitnessThreshold ==
    /\ bank_call.op = "lookup"
    /\ ~bank_call.needs_confirmation
    /\ bank_call.confidence = [num |-> 6, den |-> 10]
    /\ bank_call.result.intent = "move_relative"

\* "stop" is 4/9 similar to "go up", the best there is: a miss
C26_WitnessMiss ==
    /\ bank_call.op = "lookup"
    /\ bank_call.before # <<>>
    /\ bank_call.result = NoMatch

C27_WitnessConfirm ==
    /\ bank_call.op = "lookup"
    /\ bank_call.needs_confirmation
    /\ bank_call.before[bank_call.index].parameters.distance = 10
    /\ bank_call.result.parameters.distance = 30

\* "go up 5 mm" matched "go up 5" by similarity: half a centimetre is returned
C27_WitnessFuzzy ==
    /\ bank_call.op = "lookup"
    /\ bank_call.utterance = <<"g", "o", " ", "u", "p", " ", "5", " ", "m", "m">>
    /\ ~bank_call.needs_confirmation
    /\ bank_call.confidence = [num |-> 10, den |-> 12]
    /\ bank_call.before[bank_call.index].parameters.distance = 50
    /\ bank_call.result.parameters.distance = 5

\* "plate 1" matched an entry without direction or distance: it is returned as stored
C27_WitnessNoDistanceStored ==
    /\ bank_call.op = "lookup"
    /\ bank_call.utterance = <<"p", "l", "a", "t", "e", " ", "1">>
    /\ bank_call.index # 0
    /\ bank_call.result = bank_call.before[bank_call.index].learned

(***************************************************************************)
(* Claims about the and-timeout                                            *)
(***************************************************************************)
\* The thread t of an and-timeout runs _execute_and_timeout in this step,
\* while the utterance of its partial has had no final recognition
AndTimeoutRuns(t) ==
    /\ t \in timer_threads
    /\ t.kind = "and"
    /\ timer_threads' = timer_threads \ {t}
    /\ ~exited
    /\ phase = "speaking"
    /\ t.utt = utt
    /\ process_multi_command_sentence(t.text, speech_position) # <<>>

\* C28: when the and-timeout of a partial with "and" or "then" expires before
\* the final recognition, the partial is executed: its positions are queued
\* and it becomes the executed text, also when a partial of the same utterance
\* was executed before.
C28_AndTimeoutExecutesPartial ==
    [][\A t \in timer_threads :
          AndTimeoutRuns(t) =>
              /\ executed_in_partial' = t.text
              /\ command_queue' = command_queue
                     \o Tagged(process_multi_command_sentence(t.text, speech_position), t.utt)]_vars

\* C28, when no partial of the utterance was executed before: the partial of
\* the and-timeout is executed.
C28_AndTimeoutExecutesFirstPartial ==
    [][\A t \in timer_threads :
          (AndTimeoutRuns(t) /\ executed_in_partial = <<>>) =>
              /\ executed_in_partial' = t.text
              /\ command_queue' = command_queue
                     \o Tagged(process_multi_command_sentence(t.text, speech_position), t.utt)]_vars

\* An and-timeout has executed its partial before the final recognition
C28_Witness ==
    /\ phase = "speaking"
    /\ HasConnector(executed_in_partial)
    /\ command_queue # <<>>
    /\ command_queue[Len(command_queue)].utt = utt

(***************************************************************************)
(* Claims about learned composites and about compilation                   *)
(***************************************************************************)
\* The composites a document or registry holds, of both of its dicts
StoredComposites(set) ==
    { set.composites[name] : name \in CompositeNames }
        \cup { set.learned_composites[name] : name \in CompositeNames }

\* C29: every composite learned at runtime, by learn_composite or by the
\* memory writer, is stored with llm_visible true and learned true, in the
\* registry and in its document.
C29_LearnedCompositesAreFlagged ==
    \A entry \in StoredComposites(instruction_set) \cup StoredComposites(instruction_file) :
        entry.defined => {"llm_visible", "learned"} \subseteq entry.flags

\* C29, of what holds: every learned composite is stored with learned true,
\* and those the memory writer stores have llm_visible true as well.
C29_LearnedCompositesAreMarkedLearned ==
    /\ \A entry \in StoredComposites(instruction_set) \cup StoredComposites(instruction_file) :
           entry.defined => "learned" \in entry.flags
    /\ \A name \in CompositeNames :
           instruction_file.learned_composites[name].defined =>
               instruction_file.learned_composites[name].flags = {"learned", "llm_visible"}

\* Both paths have stored a composite
C29_Witness ==
    /\ \E name \in CompositeNames : instruction_file.composites[name].defined
    /\ \E name \in CompositeNames : instruction_file.learned_composites[name].defined

\* The instructions the sequence of a composite names
Refs(set, name) ==
    IF get_instruction(set, name) = "composite"
    THEN { get_composites(set)[name].sequence[k].instruction :
               k \in 1..Len(get_composites(set)[name].sequence) }
    ELSE {}

RECURSIVE RefsWithin(_, _, _)
RefsWithin(set, names, rounds) ==
    IF rounds = 0 THEN names
    ELSE RefsWithin(set, names \cup UNION { Refs(set, n) : n \in names }, rounds - 1)

\* The instructions name refers to, directly or through other composites
Reached(set, name) == RefsWithin(set, Refs(set, name), Cardinality(CompositeNames))

Acyclic(set) == \A name \in CompositeNames : name \notin Reached(set, name)

\* name refers to itself, or to a composite that does
Recurs(set, name) ==
    \E c \in (Reached(set, name) \cup {name}) \cap CompositeNames : c \in Reached(set, c)

\* C30: in a registry whose composites do not refer to themselves, directly or
\* through others, every call of compile_instruction returns.  A call for a
\* composite that does refer to itself never returns: nothing stops the
\* recursion, and the calls nest as deep as the stack is followed.
C30_CompileReturnsUnlessRecursive ==
    /\ (call_stack # <<>> /\ Acyclic(instruction_set)) ~> (call_stack = <<>>)
    /\ [][(call_stack # <<>> /\ Recurs(instruction_set, call_stack[1].name))
              => call_stack' # <<>>]_vars
    /\ (call_stack # <<>> /\ Recurs(instruction_set, call_stack[1].name))
           ~> (Len(call_stack) = MaxDepth)

\* C30, of the calls that return: the plan is the expansion of the composite
C30_ReturnsThePlan ==
    (compile_call.kind = "instruction" /\ Acyclic(instruction_set)) =>
        compile_call.plan =
            compile_instruction(instruction_set, compile_call.name, compile_call.params)

\* transfer refers to make_snack and make_snack to transfer; the calls for
\* make_snack are MaxDepth deep
C30_Witness ==
    /\ Len(call_stack) = MaxDepth
    /\ call_stack[1].name = "make_snack"
    /\ call_stack[2].name = "transfer"
    /\ call_stack[3].name = "make_snack"
    /\ ~Acyclic(instruction_set)

\* make_snack, which refers to transfer, which refers to pick_up, was compiled
C30_WitnessReturned ==
    /\ Acyclic(instruction_set)
    /\ compile_call.kind = "instruction"
    /\ compile_call.name = "make_snack"
    /\ "pick_up" \in Reached(instruction_set, "transfer")
    /\ compile_call.plan.ok
    /\ Len(compile_call.plan.steps) = 2

\* learn_composite has stored a composite in this step
LearnSucceeds == learn_call' # NoLearn /\ learn_result' = "True"

\* C31: a successful learn_composite on a registry whose composites do not
\* refer to themselves leaves it so, also when the name is that of a known
\* composite or one a known composite refers to.
C31_LearnKeepsAcyclic ==
    [][(LearnSucceeds /\ Acyclic(instruction_set)) => Acyclic(instruction_set')]_vars

\* C31, for a name that is not a composite yet, as the callers of
\* learn_composite see to, in a registry all of whose composites went through
\* the check of learn_composite: the registry stays acyclic.
C31_LearnNewNameKeepsAcyclic ==
    [][(/\ LearnSucceeds
        /\ Acyclic(instruction_set)
        /\ get_instruction(instruction_set, learn_call'.name) # "composite")
       => Acyclic(instruction_set')]_vars

\* A composite was learned under a new name, from a composite that refers to another
C31_Witness ==
    /\ learn_result = "True"
    /\ learn_call.name = "make_snack"
    /\ "pick_up" \in Reached(instruction_set, "make_snack")
    /\ Acyclic(instruction_set)

(***************************************************************************)
(* Claims about the debounce timer                                         *)
(***************************************************************************)
\* The thread t of a debounce timer runs _execute_partial_command in this
\* step, after a newer partial of the same utterance has arrived
SupersededTimerRuns(t) ==
    /\ t \in timer_threads
    /\ t.kind = "partial"
    /\ timer_threads' = timer_threads \ {t}
    /\ ~exited
    /\ phase = "speaking"
    /\ t.utt = utt
    /\ Len(last_partial_text) > Len(t.text)

\* C32: a debounce timer whose partial was followed by a newer partial never
\* executes the text it captured, also when its callback was already waiting
\* for partial_lock when the newer partial cancelled it.
C32_SupersededTimerNeverExecutes ==
    [][\A t \in timer_threads :
          SupersededTimerRuns(t) => UNCHANGED <<command_queue, executed_in_partial>>]_vars

\* C32, when the newer partial has "and" or "then" in it: the superseded
\* callback executes nothing.
C32_SupersededByConnectorNeverExecutes ==
    [][\A t \in timer_threads :
          (SupersededTimerRuns(t) /\ HasConnector(last_partial_text))
              => UNCHANGED <<command_queue, executed_in_partial>>]_vars

(***************************************************************************)
(* Claims about the passes of the sequence interpreter                     *)
(***************************************************************************)
\* What Pass 2 left as validation_issues is an issue the validator reported:
\* not the note of an unparseable response, not that of a failed call
ValidatorReportedIssue(issues) ==
    issues \notin { <<>>, <<"Validator response unparseable">>, <<"Validation error: boom">> }

\* C33: one interpret makes at most three model calls, one after the other,
\* Pass 1, then Pass 2, then Pass 3, and Pass 3 only after a Pass 2 that was
\* made, did not fail and reported an issue of its own.
C33_PassesInOrder ==
    [][/\ passes'.calls \in {passes.calls, passes.calls + 1}
       /\ passes'.calls <= 3
       /\ passes'.calls = 1 /\ passes.calls = 0 => interp_pc = "idle"
       /\ passes'.pass2 # passes.pass2 =>
              /\ passes.calls = 1 /\ passes'.calls = 2
              /\ passes.pass3 = "no" /\ passes'.pass3 = "no"
       /\ passes'.pass3 # passes.pass3 =>
              /\ passes.calls = 2 /\ passes'.calls = 3
              /\ passes.pass2 = "ran"
              /\ ValidatorReportedIssue(interp_result.validation_issues)]_vars

\* All three passes ran
C33_Witness ==
    /\ passes.calls = 3
    /\ passes.pass2 = "ran"
    /\ passes.pass3 = "ran"
    /\ interp_outcome = "returned"

\* The local name check of the sequence Pass 1 proposed finds an unknown name
UnknownName(seq) ==
    \E k \in 1..Len(seq) :
        \/ seq[k].instruction # "" /\ seq[k].instruction \notin ValidInstructions
        \/ seq[k].instruction = "add_layer" /\ seq[k].item # "" /\ seq[k].item \notin Items

\* One of the conditions for skipping Pass 2, the empty sequence apart
SkipCondition ==
    \/ is_creative(voice_command)
    \/ interp_result.confidence >= 88
    \/ LayersOf(interp_result.pass1_sequence) \in Recipes

\* Pass 1 has given a sequence and nothing else was called yet
AfterPass1 == passes.calls = 1 /\ ~passes.failure

C34_WitnessNoIssue ==
    /\ AfterPass1
    /\ ~UnknownName(interp_result.pass1_sequence)
    /\ ~SkipCondition
    /\ interp_pc = "pass2"

\* A confident sequence of known names skips Pass 2
C34_WitnessSkipped ==
    /\ AfterPass1
    /\ interp_result.pass1_sequence # <<>>
    /\ interp_result.confidence >= 88
    /\ interp_outcome = "returned"
    /\ interp_result.validated

(***************************************************************************)
(* Claims about confirmations                                              *)
(***************************************************************************)
\* What process does with the reply to a pending confirmation: "yes" executes
\* the suggested intent once and clears the confirmation, "no" clears it with
\* nothing executed or learned, any other reply leaves everything as it is
ReplyIsHandled ==
    pending_confirmation.pending =>
        /\ process_result'.reply = "yes" =>
               /\ process_result'.executed = <<pending_confirmation.suggested_intent>>
               /\ pending_confirmation' = NoPending
        /\ process_result'.reply = "no" =>
               /\ process_result'.executed = <<>>
               /\ pending_confirmation' = NoPending
               /\ phrases' = phrases
        /\ process_result'.reply \notin {"yes", "no"} =>
               /\ process_result'.executed = <<>>
               /\ pending_confirmation' = pending_confirmation
               /\ phrases' = phrases

\* process asks and executes nothing
Asks ==
    /\ process_result'.executed = <<>>
    /\ pending_confirmation'.pending
    /\ phrases' = phrases

\* C35: a match tagged needs_confirmation, of the phrase bank or of the
\* language model, is not executed but asked about, and the next utterance is
\* the reply: yes executes the suggested intent once, no executes and learns
\* nothing, both clear the confirmation, anything else leaves it pending.
C35_ExecutedOnlyAfterYes ==
    [][/\ ReplyIsHandled
       /\ (~pending_confirmation.pending /\ process_result'.tagged) => Asks]_vars

\* C35, as the code has it: the same, except that with SILENT_LEARNING a match
\* of the language model is executed without being asked about.
C35_ExecutedOnlyAfterYesUnlessSilent ==
    [][/\ ReplyIsHandled
       /\ (/\ ~pending_confirmation.pending
           /\ process_result'.tagged
           /\ process_result'.source = "phrase_bank" \/ ~silent_learning) => Asks
       /\ (/\ ~pending_confirmation.pending
           /\ process_result'.tagged
           /\ process_result'.source = "llm" /\ silent_learning)
              => Len(process_result'.executed) = 1 /\ ~pending_confirmation'.pending]_vars

\* With SILENT_LEARNING off a confirmation was answered by yes: gripper_open
\* was executed and the phrase learned
C35_Witness ==
    /\ ~silent_learning
    /\ process_result.reply = "yes"
    /\ process_result.executed = <<"gripper_open">>
    /\ ~pending_confirmation.pending
    /\ \E p \in DOMAIN phrases : phrases[p].source = "confirmed_learned"

\* With SILENT_LEARNING a tagged match of the language model was executed at once
C35_WitnessSilent ==
    /\ silent_learning
    /\ process_result.tagged
    /\ process_result.executed # <<>>

(***************************************************************************)
(* Claims about the emergency halt of the intent executor                  *)
(***************************************************************************)
\* execute was called with the halt set and an intent that is not resume
ExecutedWhileHalted ==
    execute_log.count > 0 /\ execute_log.halted /\ execute_log.intent # "resume"

\* The call left position, history, gripper, held object and queue as they were
Untouched ==
    /\ execute_log.after.current_position = execute_log.before.current_position
    /\ execute_log.after.position_history = execute_log.before.position_history
    /\ execute_log.after.gripper_state = execute_log.before.gripper_state
    /\ execute_log.after.held_object = execute_log.before.held_object
    /\ execute_log.after.command_queue = execute_log.before.command_queue

\* The call cleared the halt
ClearedHalt == execute_log.before.emergency_halt /\ ~execute_log.after.emergency_halt

\* C36: while the emergency halt is set, executing any intent other than resume,
\* the steps of a compound command included, returns no command and leaves the
\* current position, the position history, the gripper state, the held object and
\* the command queue unchanged; only resume clears the halt.
C36_HaltBlocksEveryIntent ==
    /\ ExecutedWhileHalted => execute_log.command = None /\ Untouched
    /\ ClearedHalt => execute_log.intent = "resume"

\* C36, as the code has it: the intents the phrase bank has as implemented
\* return no command, the others return the not_implemented reply, which is not
\* queued; both leave the state as it was and the halt set.
C36_HaltBlocksImplementedIntents ==
    /\ ExecutedWhileHalted =>
          /\ Untouched
          /\ execute_log.after.emergency_halt
          /\ execute_log.command =
                IF is_intent_implemented(execute_log.intent) THEN None ELSE "not_implemented"
    /\ ClearedHalt => execute_log.intent = "resume"

\* After an emergency stop, a later step of the same compound command asked
\* for a move from a position that is not the first one, and was refused
C36_Witness ==
    /\ ExecutedWhileHalted
    /\ execute_log.in_compound
    /\ execute_log.intent = "move_relative"
    /\ execute_log.command = None
    /\ execute_log.before.current_position # 0

\* With the halt set, resume cleared it and was queued
C36_WitnessResume ==
    /\ ClearedHalt
    /\ execute_log.command = "resume"

\* With the halt set, an intent the phrase bank does not know got a reply
C36_WitnessNotImplemented ==
    /\ ExecutedWhileHalted
    /\ execute_log.command = "not_implemented"

(***************************************************************************)
(* Claims about sentences of several commands                              *)
(***************************************************************************)
\* The sum of the deltas parse_movement_command returns for the commands
RECURSIVE ParsedDeltas(_)
ParsedDeltas(commands) ==
    IF commands = <<>> THEN Zero
    ELSE IF found_direction(Head(commands).cmd)
    THEN apply_delta_to_position(parse_movement_command(Head(commands).cmd),
                                 ParsedDeltas(Tail(commands)))
    ELSE ParsedDeltas(Tail(commands))

\* The sum of the deltas of the emitted positions
RECURSIVE EmittedDeltas(_)
EmittedDeltas(positions) ==
    IF positions = <<>> THEN Zero
    ELSE apply_delta_to_position(Head(positions).delta, EmittedDeltas(Tail(positions)))

\* The position after position number i is emitted, by the emitted deltas
EmittedUpTo(i) ==
    apply_delta_to_position(sentence_call.start,
                            EmittedDeltas(SubSeq(sentence_call.positions, 1, i)))

SomeCommandParses ==
    \E i \in 1..Len(split_into_commands(sentence_call.text)) :
        found_direction(split_into_commands(sentence_call.text)[i].cmd)

\* C37: for a sentence split by "and" and "then", every command that parses to
\* a movement contributes its delta to exactly one emitted position: the emitted
\* deltas add up to the parsed ones, every emitted position is the start plus the
\* deltas emitted so far, and the last emitted position is the start plus the sum
\* of all the parsed deltas, whatever unparseable parts lie between or after.
C37_EveryParsedDeltaIsEmitted ==
    (sentence_call.called /\ SomeCommandParses) =>
        LET positions == sentence_call.positions
            total == ParsedDeltas(split_into_commands(sentence_call.text))
        IN  /\ positions # <<>>
            /\ EmittedDeltas(positions) = total
            /\ \A i \in 1..Len(positions) : positions[i].position = EmittedUpTo(i)
            /\ positions[Len(positions)].position =
                  apply_delta_to_position(sentence_call.start, total)

\* The same of the sentences whose last command parses to a movement
C37_ParsedDeltasEmittedWhenLastParses ==
    (/\ sentence_call.called
     /\ LET commands == split_into_commands(sentence_call.text)
        IN  found_direction(commands[Len(commands)].cmd)) =>
        LET positions == sentence_call.positions
            total == ParsedDeltas(split_into_commands(sentence_call.text))
        IN  /\ positions # <<>>
            /\ EmittedDeltas(positions) = total
            /\ \A i \in 1..Len(positions) : positions[i].position = EmittedUpTo(i)
            /\ positions[Len(positions)].position =
                  apply_delta_to_position(sentence_call.start, total)

\* "go right 5 then wave" from a start that is not the origin
C37_Witness ==
    /\ sentence_call.called
    /\ sentence_call.text = <<"go", "right", "5", "then", "wave">>
    /\ sentence_call.start # Zero

(***************************************************************************)
(* Claims about what a lookup leaves in the phrase bank                    *)
(***************************************************************************)
\* C38: a lookup never changes the stored entry it matches: the entries after
\* the lookup are the entries before it, and a lookup without a distance returns
\* the parameters its entry was learned with, whatever distances the lookups
\* before it carried.
C38_LookupLeavesEntry ==
    bank_call.op = "lookup" =>
        /\ phrase_bank = bank_call.before
        /\ (bank_call.index # 0 /\ ~extract_distance(bank_call.utterance).found) =>
              bank_call.result = bank_call.before[bank_call.index].learned

\* C38, for the lookups without a distance: they leave the entries as they are
C38_PlainLookupLeavesEntry ==
    (bank_call.op = "lookup" /\ ~extract_distance(bank_call.utterance).found) =>
        phrase_bank = bank_call.before

\* "go up" is looked up, and matches an entry whose parameters are no longer
\* the learned ones
C38_Witness ==
    /\ bank_call.op = "lookup"
    /\ bank_call.utterance = <<"g", "o", " ", "u", "p">>
    /\ bank_call.index # 0
    /\ StoredResult(bank_call.before[bank_call.index])
          # bank_call.before[bank_call.index].learned

(***************************************************************************)
(* Claims about the assembly state of the sub-executor and of the scene    *)
(***************************************************************************)
\* C39: whenever no sub-executor operation is in progress, the stack and the
\* height of the scene state are the stack and the height the sub-executor holds
\* in memory, after any sequence of add_layer, serve and clear_assembly calls,
\* the calls that failed part-way through their motions included.
C39_SceneStateIsTheAssembly ==
    /\ scene_state.assembly_stack = sandwich.assembly_stack
    /\ scene_state.assembly_stack_height = sandwich.assembly_stack_height

\* C39, call by call: a call of add_layer or of serve, failed part-way or not,
\* and a call of clear_assembly that returns True, made when the two agree,
\* leaves them in agreement
C39_CallsKeepSceneStateUnlessClearFails ==
    [][(/\ C39_SceneStateIsTheAssembly
        /\ lastCall' # lastCall
        /\ ~(lastCall'.op = "clear_assembly" /\ ~lastCall'.ok))
       => C39_SceneStateIsTheAssembly']_vars

\* add_layer sent motions and then failed, on a stack that is not empty
C39_Witness ==
    /\ lastCall.op = "add_layer"
    /\ ~lastCall.ok
    /\ lastCall.motions > 0
    /\ sandwich.assembly_stack # <<>>

\* clear_assembly returned one item and failed on the next
C39_WitnessClearFailed ==
    /\ lastCall.op = "clear_assembly"
    /\ ~lastCall.ok
    /\ Len(sandwich.assembly_stack) < Len(lastCall.pre.assembly_stack)

(***************************************************************************)
(* Claims about the locks                                                  *)
(***************************************************************************)
\* C40: no interleaving of the partial-debounce callback, the and-timeout
\* callback and the recognition handlers deadlocks: a thread that waits for
\* the partial lock, the queue lock, the position lock or the pending-command
\* lock gets it, although the position lock and the pending-command lock are
\* taken in both orders.
C40_EveryAcquisitionSucceeds ==
    \A t \in Threads : \A l \in Locks : Waiting(t, l) ~> Holds(t, l)

\* C40, as a property of the states: a thread never waits for the position
\* lock or the pending-command lock while another thread holds it
C40_InnerLocksAreFree ==
    \A t \in Threads : \A l \in {"position_lock", "pending_command_lock", "queue_lock"} :
        Waiting(t, l) => lock_holder[l] = None

\* Both orders have been taken: a thread that took the pending-command lock
\* first holds the position lock with it, while another thread waits for the
\* partial lock
C40_Witness ==
    /\ <<"position_lock", "pending_command_lock">> \in lock_orders
    /\ <<"pending_command_lock", "position_lock">> \in lock_orders
    /\ \E t \in Threads, u \in Threads :
          /\ t # u
          /\ Waiting(t, "partial_lock")
          /\ Holds(u, "partial_lock")
          /\ Holds(u, "pending_command_lock")
          /\ Holds(u, "position_lock")
          /\ thread_pc[u].nested

=============================================================================
